---- MODULE Spec2Model ----
(***************************************************************************)
(* Model of the Acquia documentation MCP server (src/main.py): the bounded *)
(* FIFO page cache, the breadth-first crawler with per-product budgets,    *)
(* the relevance engine and the direct search with its pinned Memcached    *)
(* document.                                                               *)
(*                                                                         *)
(* Strings are TLA+ strings; the string functions of the source (lower,    *)
(* in, count, split, startswith, endswith, urlparse, quote) are computed   *)
(* character by character with Len, SubSeq and \o.                         *)
(***************************************************************************)
EXTENDS Integers, Sequences, FiniteSets, TLC

(***************************************************************************)
(* Python string primitives.                                               *)
(***************************************************************************)

\* s[i] as a one-character string (1-based).
CharAt(s, i) == SubSeq(s, i, i)

\* Python: sub in s
Contains(s, sub) ==
  \E i \in 0..(Len(s) - Len(sub)) : SubSeq(s, i + 1, i + Len(sub)) = sub

\* Python: s.startswith(p)
StartsWith(s, p) == Len(p) <= Len(s) /\ SubSeq(s, 1, Len(p)) = p

\* Python: s.endswith(p)
EndsWith(s, p) ==
  Len(p) <= Len(s) /\ SubSeq(s, Len(s) - Len(p) + 1, Len(s)) = p

\* Python: s.find(sub) + 1 (0 when sub does not occur).
FindFirst(s, sub) ==
  LET hits == {i \in 1..(Len(s) - Len(sub) + 1) : SubSeq(s, i, i + Len(sub) - 1) = sub}
  IN  IF hits = {} THEN 0 ELSE CHOOSE i \in hits : \A j \in hits : i <= j

\* Greedy left-to-right count over the start positions of the occurrences.
RECURSIVE CountFrom(_, _, _)
CountFrom(hits, from, n) ==
  LET rest == {i \in hits : i >= from}
  IN  IF rest = {} THEN 0
      ELSE LET first == CHOOSE i \in rest : \A j \in rest : i <= j
           IN  1 + CountFrom(rest, first + n, n)

\* Python: s.count(sub), the number of non-overlapping occurrences
\* (len(s) + 1 for the empty sub).
StrCount(s, sub) ==
  IF Len(sub) = 0 THEN Len(s) + 1
  ELSE CountFrom({i \in 1..(Len(s) - Len(sub) + 1) : SubSeq(s, i, i + Len(sub) - 1) = sub},
                 1, Len(sub))

UpperChars == "ABCDEFGHIJKLMNOPQRSTUVWXYZ"
LowerChars == "abcdefghijklmnopqrstuvwxyz"

UpperSet == {CharAt(UpperChars, i) : i \in 1..Len(UpperChars)}

LowerChar(c) ==
  IF c \in UpperSet THEN CharAt(LowerChars, FindFirst(UpperChars, c)) ELSE c

\* Python: s.lower() (ASCII), by halving so that the recursion stays shallow.
RECURSIVE Lower(_)
Lower(s) ==
  IF Len(s) = 0 THEN s
  ELSE IF Len(s) = 1 THEN LowerChar(s)
  ELSE LET h == Len(s) \div 2
       IN  Lower(SubSeq(s, 1, h)) \o Lower(SubSeq(s, h + 1, Len(s)))

IsSpace(c) == c \in {" ", "\t", "\n", "\r"}

\* Python: s.split() with no separator: the maximal runs of non-whitespace.
RECURSIVE SplitFrom(_, _)
SplitFrom(s, from) ==
  LET starts == {i \in from..Len(s) : ~IsSpace(CharAt(s, i))}
  IN  IF starts = {} THEN <<>>
      ELSE LET b    == CHOOSE i \in starts : \A j \in starts : i <= j
               ends == {i \in b..Len(s) : IsSpace(CharAt(s, i))}
               e    == IF ends = {} THEN Len(s) + 1
                       ELSE CHOOSE i \in ends : \A j \in ends : i <= j
           IN  <<SubSeq(s, b, e - 1)>> \o SplitFrom(s, e)

SplitWords(s) == SplitFrom(s, 1)

\* Python: s.split(sep)[0]
BeforeFirst(s, sep) ==
  LET k == FindFirst(s, sep)
  IN  IF k = 0 THEN s ELSE SubSeq(s, 1, k - 1)

\* Python: s.replace(old, new), for a non-empty old.
RECURSIVE StrReplace(_, _, _)
StrReplace(s, old, new) ==
  LET k == FindFirst(s, old)
  IN  IF k = 0 THEN s
      ELSE SubSeq(s, 1, k - 1) \o new
           \o StrReplace(SubSeq(s, k + Len(old), Len(s)), old, new)

\* The printable ASCII characters from 32 to 95 and from 97 to 126, in order
\* (96, the backquote, cannot be written in a TLA+ string).
AsciiLow  == " !\"#$%&'()*+,-./0123456789:;<=>?@ABCDEFGHIJKLMNOPQRSTUVWXYZ[\\]^_"
AsciiHigh == "abcdefghijklmnopqrstuvwxyz{|}~"

\* Python: ord(c)
Ord(c) ==
  IF FindFirst(AsciiLow, c) # 0 THEN 31 + FindFirst(AsciiLow, c)
  ELSE IF FindFirst(AsciiHigh, c) # 0 THEN 96 + FindFirst(AsciiHigh, c)
  ELSE IF c = "\n" THEN 10
  ELSE IF c = "\t" THEN 9
  ELSE IF c = "\r" THEN 13
  ELSE 96

HexDigits == "0123456789ABCDEF"

\* The characters urllib.parse.quote leaves as they are (safe = "/").
QuoteSafe ==
  UNION {{CharAt(x, i) : i \in 1..Len(x)} : x \in {UpperChars, LowerChars, "0123456789_.-~/"}}

\* Python: requests.utils.quote(s), by halving.
RECURSIVE Quote(_)
Quote(s) ==
  IF Len(s) = 0 THEN s
  ELSE IF Len(s) = 1
  THEN IF s \in QuoteSafe THEN s
       ELSE "%" \o CharAt(HexDigits, (Ord(s) \div 16) + 1)
                \o CharAt(HexDigits, (Ord(s) % 16) + 1)
  ELSE LET h == Len(s) \div 2
       IN  Quote(SubSeq(s, 1, h)) \o Quote(SubSeq(s, h + 1, Len(s)))

\* The least member of a non-empty set of integers.
MinOf(S) == CHOOSE i \in S : \A j \in S : i <= j

(***************************************************************************)
(* urllib.parse.urlparse, for the two components the source reads.         *)
(***************************************************************************)

\* The offset just after "scheme://", or 0 for a URL with no authority.
AuthorityStart(url) ==
  LET k == FindFirst(url, "://")
  IN  IF k = 0 THEN 0 ELSE k + 3

\* The first position at or after 'from' holding one of the characters of
\* 'stops', or Len(s) + 1.
FirstStop(s, from, stops) ==
  LET hit == {i \in from..Len(s) : CharAt(s, i) \in stops}
  IN  IF hit = {} THEN Len(s) + 1 ELSE MinOf(hit)

\* urlparse(url).netloc
UrlNetloc(url) ==
  LET a == AuthorityStart(url)
  IN  IF a = 0 THEN ""
      ELSE SubSeq(url, a, FirstStop(url, a, {"/", "?", "#"}) - 1)

\* urlparse(url).path
UrlPath(url) ==
  LET a == AuthorityStart(url)
      b == IF a = 0 THEN 1 ELSE FirstStop(url, a, {"/", "?", "#"})
  IN  SubSeq(url, b, FirstStop(url, b, {"?", "#"}) - 1)

(***************************************************************************)
(* Configuration (main.py, lines 15-89).                                   *)
(***************************************************************************)

DRUPAL_BASE_URL == "https://docs.acquia.com/"

DRUPAL_DOCS_START == DRUPAL_BASE_URL

\* Two of the ten product overview pages of the source's list: every one is
\* handled alike, by position in the list only.
MAIN_DOC_URLS ==
  << "https://docs.acquia.com/acquia-cloud-platform/overview",
     "https://docs.acquia.com/acquia-dam/overview" >>

MEMCACHED_DOC_URL ==
  "https://docs.acquia.com/acquia-cloud-platform/enabling-memcached-cloud-platform"

\* The document's text. Its code fences (three backquotes) are written ''' here,
\* since a TLA+ string cannot hold a backquote; no query word and no keyword
\* of the source contains either character.
MEMCACHED_DOC_CONTENT ==
  "# Enabling Memcached on Cloud Platform\n"
  \o "\n"
  \o "To enable Memcached on your website hosted by Cloud Platform, you must install the Memcache API and Integration module in your codebase, and configure the module for use.\n"
  \o "\n"
  \o "## Configuration for the current Drupal version\n"
  \o "\n"
  \o "For Memcached to function, you must provide additional configuration code that enables autoloading, and identifies Memcached as an alternative cache back-end.\n"
  \o "\n"
  \o "To configure your website for Memcached, make the following changes to your codebase, depending on your subscription type:\n"
  \o "\n"
  \o "### For Cloud Classic:\n"
  \o "\n"
  \o "1. Download the Memcache API and Integration module, and then add the module to your codebase in the modules/contrib/memcache directory. Acquia recommends that you use Composer to install the module:\n"
  \o "   '''\n"
  \o "   composer require drupal/memcache\n"
  \o "   '''\n"
  \o "\n"
  \o "2. For Cloud Classic, do the following:\n"
  \o "   \n"
  \o "   a. Add the Composer package that contains the Acquia Memcache settings to your project:\n"
  \o "   '''\n"
  \o "   composer require acquia/memcache-settings\n"
  \o "   '''\n"
  \o "   \n"
  \o "   b. For each website that requires Memcached, edit the Cloud Platform database require line in settings.php with a PHP require_once statement, similar to the following example:\n"
  \o "   '''php\n"
  \o "   if (file_exists('/var/www/site-php')) {\n"
  \o "      require('/var/www/site-php/mysite/mysite-settings.inc');\n"
  \o "      // Memcached settings for Acquia Hosting\n"
  \o "      $memcache_settings_file = DRUPAL_ROOT . \"/../vendor/acquia/memcache-settings/memcache.settings.php\";\n"
  \o "      if (file_exists($memcache_settings_file)) {\n"
  \o "        require_once $memcache_settings_file;\n"
  \o "      }\n"
  \o "   }\n"
  \o "   '''\n"
  \o "\n"
  \o "3. Rebuild caches by running the following command, replacing [example.com] with the domain name of your website:\n"
  \o "   '''\n"
  \o "   drush cr --uri=[example.com]\n"
  \o "   '''\n"
  \o "\n"
  \o "4. Truncate all cache_ tables in the database for the website.\n"
  \o "\n"
  \o "### For Cloud Next:\n"
  \o "For Cloud Next, you do not need to add anything to your settings.php file as the configuration logic is already included in Cloud Next. If you already have code in settings.php that enables Memcache integration with Cloud Platform, you can opt to remove it.\n"
  \o "\n"
  \o "## Important Notes:\n"
  \o "- Do not edit the memcache_key_prefix or memcache_servers settings, as Cloud Platform adds the correct values in Acquia-specific code.\n"
  \o "- Test any procedures on a non-production environment before implementing them on production.\n"
  \o "- The same steps must be used for CD environments because CD environments are not supported in Cloud Next.\n"
  \o "\n"
  \o "Source: https://docs.acquia.com/acquia-cloud-platform/enabling-memcached-cloud-platform\n"

(***************************************************************************)
(* URL classifier.                                                         *)
(***************************************************************************)

excluded_patterns ==
  << "/user/login", "/user/register", "/user/password", "/user/logout",
     "/admin/", "/taxonomy/term/", "/node/add",
     "/contact", "/rss.xml", "/sitemap.xml" >>

excluded_extensions ==
  << ".jpg", ".jpeg", ".png", ".gif", ".pdf", ".zip", ".tar.gz", ".css", ".js" >>

problem_patterns == << "/themes/", "/modules/", "/core/", "/sites/default" >>

\* any(p in s for p in patterns)
AnyIn(patterns, s) == \E i \in 1..Len(patterns) : Contains(s, patterns[i])

is_docs_url(url) ==
  LET path_lower == Lower(UrlPath(url))
  IN  IF UrlNetloc(url) # UrlNetloc(DRUPAL_BASE_URL) THEN FALSE
      ELSE IF AnyIn(excluded_patterns, path_lower) THEN FALSE
      ELSE IF \E i \in 1..Len(excluded_extensions) :
                 EndsWith(path_lower, excluded_extensions[i]) THEN FALSE
      ELSE IF StartsWith(path_lower, "/") /\ Len(path_lower) > 1
                /\ ~AnyIn(problem_patterns, path_lower) THEN TRUE
      ELSE FALSE

\* The markers of get_product_area in the order of its if/elif chain.
product_markers ==
  << "acquia-source", "campaign-studio", "content-optimization",
     "conversion-optimization", "customer-data-platform",
     "acquia-cloud-platform", "acquia-dam", "drupal-starter-kits",
     "site-factory", "web-governance" >>

\* A faulty variant: the markers are looked for in the whole URL.
get_product_area_WholeUrl(url) ==
  LET hits == {i \in 1..Len(product_markers) : Contains(Lower(url), "/" \o product_markers[i])}
  IN  IF hits = {} THEN "general" ELSE product_markers[MinOf(hits)]

get_product_area(url) ==
  LET path == Lower(UrlPath(url))
      hits == {i \in 1..Len(product_markers) : Contains(path, "/" \o product_markers[i])}
  IN  IF hits = {} THEN "general" ELSE product_markers[MinOf(hits)]

(***************************************************************************)
(* Relevance engine.                                                       *)
(***************************************************************************)

memcache_indicators == << "memcache", "memcached", "cache", "caching" >>

settings_indicators == << "settings.php", "settings", "configuration", "config" >>

action_indicators ==
  << "enable", "enabling", "configure", "setup", "install", "add", "integration" >>

demo_phrases ==
  << "enable memcached", "memcache integration", "memcached settings",
     "cache backend", "acquia memcache", "cloud classic memcache" >>

is_memcached_related_query(query) ==
  LET query_lower  == Lower(query)
      has_memcache == AnyIn(memcache_indicators, query_lower)
      has_settings == AnyIn(settings_indicators, query_lower)
      has_action   == AnyIn(action_indicators, query_lower)
  IN  \/ has_memcache /\ has_settings
      \/ has_memcache /\ has_action
      \/ AnyIn(demo_phrases, query_lower)

get_memcached_doc_data ==
  [ url     |-> MEMCACHED_DOC_URL,
    title   |-> "Enabling Memcached on Cloud Platform",
    content |-> MEMCACHED_DOC_CONTENT,
    links   |-> <<>>,
    success |-> TRUE ]

memcache_keywords ==
  << "memcache", "settings.php", "cloud classic", "require_once", "composer require" >>

RECURSIVE SumSeq(_)
SumSeq(ns) == IF ns = <<>> THEN 0 ELSE Head(ns) + SumSeq(Tail(ns))

\* A faulty variant: the content term counts the query words that are absent
\* from the content.
calculate_relevance_CountsAbsentWords(query, page_data) ==
  LET query_lower   == Lower(query)
      query_words   == SplitWords(query_lower)
      content_lower == Lower(page_data.content)
      title_lower   == Lower(page_data.title)
      title_exact_match   == IF Contains(title_lower, query_lower) THEN 10 ELSE 0
      title_word_matches  ==
        SumSeq([i \in 1..Len(query_words) |->
                  IF Contains(title_lower, query_words[i]) THEN 1 ELSE 0]) * 5
      content_exact_match == StrCount(content_lower, query_lower) * 2
      content_word_matches ==
        SumSeq([i \in 1..Len(query_words) |->
                  IF Contains(content_lower, query_words[i]) THEN 0 ELSE 1])
  IN  title_exact_match + title_word_matches + content_exact_match + content_word_matches

calculate_relevance(query, page_data) ==
  LET query_lower   == Lower(query)
      query_words   == SplitWords(query_lower)
      content_lower == Lower(page_data.content)
      title_lower   == Lower(page_data.title)
      title_exact_match   == IF Contains(title_lower, query_lower) THEN 10 ELSE 0
      title_word_matches  ==
        SumSeq([i \in 1..Len(query_words) |->
                  IF Contains(title_lower, query_words[i]) THEN 1 ELSE 0]) * 5
      content_exact_match == StrCount(content_lower, query_lower) * 2
      content_word_matches ==
        SumSeq([i \in 1..Len(query_words) |-> StrCount(content_lower, query_words[i])])
      base_score ==
        title_exact_match + title_word_matches + content_exact_match + content_word_matches
      doc_boost ==
        IF page_data.url = MEMCACHED_DOC_URL \/ Contains(title_lower, "memcached")
        THEN 1000 ELSE 0
      memcache_boost ==
        SumSeq([i \in 1..Len(memcache_keywords) |->
                  StrCount(content_lower, memcache_keywords[i]) * 50])
  IN  IF is_memcached_related_query(query)
      THEN base_score + doc_boost + memcache_boost
      ELSE base_score

(***************************************************************************)
(* The documentation site, as the fetcher sees it.  A site assigns to each *)
(* URL the title, the text and the anchors (absolute hrefs, as urljoin     *)
(* returns them) of its page.                                              *)
(***************************************************************************)

uRoot  == DRUPAL_DOCS_START
uCloud == MAIN_DOC_URLS[1]
uDam   == MAIN_DOC_URLS[2]
uEntry == "https://docs.acquia.com/acquia-cloud-platform"
uCache == "https://docs.acquia.com/acquia-cloud-platform/manage/caching"
uAsset == "https://docs.acquia.com/acquia-dam/assets"

\* Anchors that is_docs_url rejects.
uLogin    == "https://docs.acquia.com/user/login"
uLogo     == "https://docs.acquia.com/themes/custom/logo.png"
uExternal == "https://www.acquia.com/about"

\* The URLs a fetch can be asked for.
Urls == {uRoot, uCloud, uDam, uEntry, uCache, uAsset, MEMCACHED_DOC_URL}

\* The anchors a page of the model may carry.
Hrefs == Urls \cup {uLogin, uLogo, uExternal, uCloud \o "#top"}

\* The product areas of get_product_area.
Products == {product_markers[i] : i \in 1..Len(product_markers)} \cup {"general"}

\* A function as an explicit table, so that each of its values is computed
\* once.
Table(f) == f @@ <<>>

\* get_product_area and the link test of fetch_page, tabulated over the URLs
\* of the model.
product_area_of == Table([u \in Urls |-> get_product_area(u)])

link_of == Table([h \in Hrefs |-> BeforeFirst(h, "#")])

docs_url == Table([h \in Hrefs |-> is_docs_url(link_of[h])])

(***************************************************************************)
(* State.                                                                  *)
(***************************************************************************)
VARIABLES
  CACHE_SIZE,           \* the configured capacity of the page cache
  web,                  \* the site: URL -> [title, content, hrefs]
  page_cache,           \* dict URL -> page_data, as the sequence of its values
                        \* in the dict's (insertion) order
  url_to_cache_key,     \* the URLs that have a cache key (the key is a
                        \* function of the URL)
  discovered_urls,      \* set of every link seen by fetch_page
  pc,                   \* "idle", or the position inside the running handler
  start_urls,           \* crawl_docs: its argument, the seed list
  max_depth,            \* crawl_docs: its argument
  visited,              \* crawl_docs: set of URLs
  to_visit,             \* crawl_docs: list of <<url, depth, product_hint>>
  all_pages,            \* crawl_docs: dict URL -> page_data, in dict order
  product_page_counts,  \* crawl_docs: dict product area -> count
  crawl_log,            \* crawl_docs: the sleeps and fetches of the run, in order
  caller,               \* direct_search_docs: the handler that called it
  inserted,             \* the URLs add_to_cache was called with on its own
  search_query,         \* direct_search_docs: its argument, query
  doc_urls,             \* direct_search_docs: the list of URLs to check
  doc_index,            \* direct_search_docs: position of the first-pass loop
  pending_links,        \* direct_search_docs: what is left of the slice of
                        \* links the second-pass loop runs over
  link_rule,            \* direct_search_docs: which of the two second-pass
                        \* loops is running ("high" or "overview")
  results,              \* direct_search_docs: list of result dicts
  last_fetch,           \* the last call of fetch_page: its URL and outcome
  ret,                  \* what the last completed handler returned
  probe                 \* a pure function called on its own: its arguments
                        \* and what it returned

env_vars    == <<CACHE_SIZE, web>>
cache_vars  == <<page_cache, url_to_cache_key, discovered_urls>>
crawl_vars  == <<start_urls, max_depth, visited, to_visit, all_pages,
                 product_page_counts, crawl_log>>
search_vars == <<caller, search_query, doc_urls, doc_index, pending_links, link_rule, results>>
vars == <<CACHE_SIZE, web, page_cache, url_to_cache_key, discovered_urls, inserted, pc,
          start_urls, max_depth, visited, to_visit, all_pages,
          product_page_counts, crawl_log, caller, search_query, doc_urls, doc_index,
          pending_links, link_rule, results, last_fetch, ret, probe>>

\* No function is being called on its own.
NoProbe == [fn |-> ""]

(***************************************************************************)
(* Python dicts kept as sequences of their values in insertion order.      *)
(***************************************************************************)

\* The keys of a dict of pages.
DictKeys(d) == {d[i].url : i \in 1..Len(d)}

\* d[url]
DictGet(d, url) == d[CHOOSE i \in 1..Len(d) : d[i].url = url]

\* d[url] = page_data: an existing key keeps its place, a new key goes last.
DictSet(d, url, page_data) ==
  IF url \in DictKeys(d)
  THEN [i \in 1..Len(d) |-> IF d[i].url = url THEN page_data ELSE d[i]]
  ELSE Append(d, page_data)

(***************************************************************************)
(* Page cache.                                                             *)
(***************************************************************************)

\* add_to_cache evicting only above the capacity.
add_to_cache_EvictAboveCapacity(cache, keys, url, page_data) ==
  LET full == Len(cache) > CACHE_SIZE
      oldest_url == IF full THEN Head(cache).url ELSE ""
      kept == IF full THEN Tail(cache) ELSE cache
      kept_keys == IF full THEN keys \ {oldest_url} ELSE keys
  IN  [ page_cache       |-> DictSet(kept, url, page_data),
        url_to_cache_key |-> kept_keys \cup {url},
        oldest_url       |-> oldest_url ]

\* add_to_cache evicting the entry inserted last.
add_to_cache_EvictNewest(cache, keys, url, page_data) ==
  LET full == Len(cache) >= CACHE_SIZE
      oldest_url == IF full THEN cache[Len(cache)].url ELSE ""
      kept == IF full THEN SubSeq(cache, 1, Len(cache) - 1) ELSE cache
      kept_keys == IF full THEN keys \ {oldest_url} ELSE keys
  IN  [ page_cache       |-> DictSet(kept, url, page_data),
        url_to_cache_key |-> kept_keys \cup {url},
        oldest_url       |-> oldest_url ]

\* add_to_cache leaving the key of the evicted entry in url_to_cache_key.
add_to_cache_KeepsEvictedKey(cache, keys, url, page_data) ==
  LET full == Len(cache) >= CACHE_SIZE
      oldest_url == IF full THEN Head(cache).url ELSE ""
      kept == IF full THEN Tail(cache) ELSE cache
  IN  [ page_cache       |-> DictSet(kept, url, page_data),
        url_to_cache_key |-> keys \cup {url},
        oldest_url       |-> oldest_url ]

\* add_to_cache on the pair (page_cache, url_to_cache_key): what the two
\* become.  oldest_url is "" when nothing is evicted.
add_to_cache(cache, keys, url, page_data) ==
  LET full       == Len(cache) >= CACHE_SIZE
      oldest_url == IF full THEN Head(cache).url ELSE ""
      kept       == IF full THEN Tail(cache) ELSE cache
      kept_keys  == IF full THEN keys \ {oldest_url} ELSE keys
  IN  [ page_cache       |-> DictSet(kept, url, page_data),
        url_to_cache_key |-> kept_keys \cup {url},
        oldest_url       |-> oldest_url ]

(***************************************************************************)
(* fetch_page.                                                             *)
(***************************************************************************)

\* Python: the distinct members of a sequence.
SeqRange(q) == {q[i] : i \in 1..Len(q)}

\* The orders in which list(set(links)) may hold the links.
Orderings(S) ==
  {q \in [1..Cardinality(S) -> S] : \A i, j \in 1..Cardinality(S) : q[i] = q[j] => i = j}

\* The links fetch_page collects from the anchors of the page at url: the
\* fragment is cut off, and the link is kept when it is a documentation URL
\* other than the page itself.
PageLinks(url, hrefs) ==
  {link_of[hrefs[i]] : i \in {j \in 1..Len(hrefs) : docs_url[hrefs[j]] /\ link_of[hrefs[j]] # url}}

\* What the network does to a request that is not served from the cache: a
\* failure (requests raises, or the parse does, before any link is seen or
\* after the links of the page were seen), or the page with its links in one
\* of the orders of list(set(links)).
NetOutcomes(url) ==
  {[ok |-> FALSE, error |-> e, links |-> <<>>] : e \in {"Network error", "Parse error"}}
  \cup {[ok |-> FALSE, error |-> "Parse error",
         links |-> CHOOSE l \in Orderings(PageLinks(url, web[url].hrefs)) : TRUE]}
  \cup {[ok |-> TRUE, error |-> "", links |-> l] : l \in Orderings(PageLinks(url, web[url].hrefs))}

\* A faulty variant: the record of a failed fetch is put into the cache.
fetch_page_CachesFailure(url, net) ==
  IF url \in DictKeys(page_cache)
  THEN [ page_data        |-> DictGet(page_cache, url),
         page_cache       |-> page_cache,
         url_to_cache_key |-> url_to_cache_key,
         discovered_urls  |-> discovered_urls,
         outcome          |-> "hit",
         oldest_url       |-> "" ]
  ELSE IF net.ok
  THEN LET result == [ url     |-> url,
                       title   |-> web[url].title,
                       content |-> web[url].content,
                       links   |-> net.links,
                       success |-> TRUE ]
           added  == add_to_cache(page_cache, url_to_cache_key, url, result)
       IN  [ page_data        |-> result,
             page_cache       |-> added.page_cache,
             url_to_cache_key |-> added.url_to_cache_key,
             discovered_urls  |-> discovered_urls \cup SeqRange(net.links),
             outcome          |-> "fetched",
             oldest_url       |-> added.oldest_url ]
  ELSE LET result == [ url     |-> url,
                       title   |-> IF net.error = "Network error"
                                   THEN "Network Error" ELSE "Parse Error",
                       content |-> net.error,
                       links   |-> <<>>,
                       success |-> FALSE ]
           added  == add_to_cache(page_cache, url_to_cache_key, url, result)
       IN  [ page_data        |-> result,
             page_cache       |-> added.page_cache,
             url_to_cache_key |-> added.url_to_cache_key,
             discovered_urls  |-> discovered_urls \cup SeqRange(net.links),
             outcome          |-> "failed",
             oldest_url       |-> added.oldest_url ]

\* A faulty variant: discovered_urls is set to the links of the page fetched
\* last.
fetch_page_ForgetsDiscovered(url, net) ==
  IF url \in DictKeys(page_cache)
  THEN [ page_data        |-> DictGet(page_cache, url),
         page_cache       |-> page_cache,
         url_to_cache_key |-> url_to_cache_key,
         discovered_urls  |-> discovered_urls,
         outcome          |-> "hit",
         oldest_url       |-> "" ]
  ELSE IF net.ok
  THEN LET result == [ url     |-> url,
                       title   |-> web[url].title,
                       content |-> web[url].content,
                       links   |-> net.links,
                       success |-> TRUE ]
           added  == add_to_cache(page_cache, url_to_cache_key, url, result)
       IN  [ page_data        |-> result,
             page_cache       |-> added.page_cache,
             url_to_cache_key |-> added.url_to_cache_key,
             discovered_urls  |-> SeqRange(net.links),
             outcome          |-> "fetched",
             oldest_url       |-> added.oldest_url ]
  ELSE [ page_data        |-> [ url     |-> url,
                                title   |-> IF net.error = "Network error"
                                            THEN "Network Error" ELSE "Parse Error",
                                content |-> net.error,
                                links   |-> <<>>,
                                success |-> FALSE ],
         page_cache       |-> page_cache,
         url_to_cache_key |-> url_to_cache_key,
         discovered_urls  |-> SeqRange(net.links),
         outcome          |-> "failed",
         oldest_url       |-> "" ]

\* fetch_page(url) when the network answers `net`: the page_data returned
\* and what the module state becomes.
fetch_page(url, net) ==
  IF url \in DictKeys(page_cache)
  THEN [ page_data        |-> DictGet(page_cache, url),
         page_cache       |-> page_cache,
         url_to_cache_key |-> url_to_cache_key,
         discovered_urls  |-> discovered_urls,
         outcome          |-> "hit",
         oldest_url       |-> "" ]
  ELSE IF net.ok
  THEN LET result == [ url     |-> url,
                       title   |-> web[url].title,
                       content |-> web[url].content,
                       links   |-> net.links,
                       success |-> TRUE ]
           added  == add_to_cache(page_cache, url_to_cache_key, url, result)
       IN  [ page_data        |-> result,
             page_cache       |-> added.page_cache,
             url_to_cache_key |-> added.url_to_cache_key,
             discovered_urls  |-> discovered_urls \cup SeqRange(net.links),
             outcome          |-> "fetched",
             oldest_url       |-> added.oldest_url ]
  ELSE [ page_data        |-> [ url     |-> url,
                                title   |-> IF net.error = "Network error"
                                            THEN "Network Error" ELSE "Parse Error",
                                content |-> net.error,
                                links   |-> <<>>,
                                success |-> FALSE ],
         page_cache       |-> page_cache,
         url_to_cache_key |-> url_to_cache_key,
         discovered_urls  |-> discovered_urls \cup SeqRange(net.links),
         outcome          |-> "failed",
         oldest_url       |-> "" ]

\* What a handler returns for its argument, and the record of no return yet.
Return(tool, argument, value) == [tool |-> tool, argument |-> argument, value |-> value]

NoReturn == Return("", "", <<>>)

\* The locals of direct_search_docs while it is not running.
SearchIdle ==
  /\ caller = ""
  /\ search_query = ""
  /\ doc_urls = <<>>
  /\ doc_index = 0
  /\ pending_links = <<>>
  /\ link_rule = ""
  /\ results = <<>>

\* The record of a call of fetch_page, and the record of no call.
FetchEvent(url, f) == [url |-> url, outcome |-> f.outcome, evicted |-> f.oldest_url]
NoFetch == [url |-> "", outcome |-> "none", evicted |-> ""]

(***************************************************************************)
(* Bounds of the model.  The source's capacity (1000), page budget (75)    *)
(* and link limits (25 and 8) are scaled down so that a handful of pages   *)
(* reaches them.                                                           *)
(***************************************************************************)

MaxCacheSize == 2

MAX_PAGES_PER_PRODUCT == 2

SAME_PRODUCT_LINKS == 2

OTHER_LINKS == 1

MaxDepth == 2

MaxSeeds == 2

(***************************************************************************)
(* crawl_docs.                                                             *)
(***************************************************************************)

\* The locals of crawl_docs on entry.
CrawlEntry(seeds, depth) ==
  /\ start_urls' = seeds
  /\ max_depth' = depth
  /\ visited' = {}
  /\ to_visit' = [i \in 1..Len(seeds) |-> <<seeds[i], 0, "main">>]
  /\ all_pages' = <<>>
  /\ product_page_counts' = <<>>
  /\ crawl_log' = <<>>

\* The locals of crawl_docs once it has returned.
CrawlLocalsGone ==
  /\ start_urls' = <<>>
  /\ max_depth' = 0
  /\ visited' = {}
  /\ to_visit' = <<>>
  /\ all_pages' = <<>>
  /\ product_page_counts' = <<>>
  /\ crawl_log' = <<>>

\* product_page_counts as a dict: area -> count over the areas entered so far.
CountOf(counts, area) == IF area \in DOMAIN counts THEN counts[area] ELSE 0

\* A faulty variant: a new area is entered with the count 1.
WithArea_StartsAtOne(counts, area) ==
  IF area \in DOMAIN counts THEN counts
  ELSE [a \in DOMAIN counts \cup {area} |-> IF a = area THEN 1 ELSE counts[a]]

\* if product_area not in product_page_counts: product_page_counts[product_area] = 0
WithArea(counts, area) ==
  IF area \in DOMAIN counts THEN counts
  ELSE [a \in DOMAIN counts \cup {area} |-> IF a = area THEN 0 ELSE counts[a]]

\* The URLs of the frontier.
Frontier(q) == {q[i][1] : i \in 1..Len(q)}

\* Python: q[:n]
Take(q, n) == SubSeq(q, 1, IF Len(q) < n THEN Len(q) ELSE n)


SleepEvent == [op |-> "sleep", url |-> "", outcome |-> ""]
FetchLogged(url, f) == [op |-> "fetch_page", url |-> url, outcome |-> f.outcome]

\* A faulty variant: only the depth is tested.
SkipItem_DepthOnly(url, depth) == depth > max_depth

\* A faulty variant: the delay is taken before every fetch.
PolitenessDelay_Always(seen) == <<SleepEvent>>

\* if len(visited) > 1: time.sleep(REQUEST_DELAY)
PolitenessDelay(seen) == IF Cardinality(seen) > 1 THEN <<SleepEvent>> ELSE <<>>

\* if url in visited or depth > max_depth: continue
SkipItem(url, depth) == url \in visited \/ depth > max_depth

\* A faulty variant: the budget test with > for >=.
OverBudget_StrictlyAbove(counts, area) == CountOf(counts, area) > MAX_PAGES_PER_PRODUCT

\* if product_page_counts[product_area] >= MAX_PAGES_PER_PRODUCT: continue
OverBudget(counts, area) == CountOf(counts, area) >= MAX_PAGES_PER_PRODUCT

\* A faulty variant: the page is recorded whether or not the fetch succeeded.
RecordPage_Always(pages, url, page_data) == DictSet(pages, url, page_data)

\* if page_data['success']: all_pages[url] = page_data
RecordPage(pages, url, page_data) ==
  IF page_data.success THEN DictSet(pages, url, page_data) ELSE pages

\* A faulty variant: the depth test with <= for <.
FollowLinks_AtMaxDepth(depth) == depth <= max_depth

\* if depth < max_depth: the links are followed
FollowLinks(depth) == depth < max_depth

\* A faulty variant: only the links of the page's own product area are queued.
NewItems_SameProductOnly(page_data, seen, rest, depth, product_area) ==
  LET same_product_links ==
        SelectSeq(page_data.links,
                  LAMBDA l : l \notin seen /\ l \notin Frontier(rest)
                             /\ product_area_of[l] = product_area)
      same == Take(same_product_links, SAME_PRODUCT_LINKS)
  IN  [i \in 1..Len(same) |-> <<same[i], depth + 1, product_area>>]

\* A faulty variant: the links of other product areas are queued at the depth
\* of the page itself.
NewItems_OtherLinksKeepDepth(page_data, seen, rest, depth, product_area) ==
  LET fresh(l) == l \notin seen /\ l \notin Frontier(rest)
      same_product_links ==
        SelectSeq(page_data.links,
                  LAMBDA l : fresh(l) /\ product_area_of[l] = product_area)
      other_links ==
        SelectSeq(page_data.links,
                  LAMBDA l : fresh(l) /\ product_area_of[l] # product_area)
      same  == Take(same_product_links, SAME_PRODUCT_LINKS)
      other == Take(other_links, OTHER_LINKS)
  IN  [i \in 1..Len(same) |-> <<same[i], depth + 1, product_area>>]
      \o [i \in 1..Len(other) |-> <<other[i], depth, product_area_of[other[i]]>>]

\* A faulty variant: every link is tagged with the product area of the page.
NewItems_TaggedWithParent(page_data, seen, rest, depth, product_area) ==
  LET fresh(l) == l \notin seen /\ l \notin Frontier(rest)
      same_product_links ==
        SelectSeq(page_data.links,
                  LAMBDA l : fresh(l) /\ product_area_of[l] = product_area)
      other_links ==
        SelectSeq(page_data.links,
                  LAMBDA l : fresh(l) /\ product_area_of[l] # product_area)
      same  == Take(same_product_links, SAME_PRODUCT_LINKS)
      other == Take(other_links, OTHER_LINKS)
  IN  [i \in 1..Len(same) |-> <<same[i], depth + 1, product_area>>]
      \o [i \in 1..Len(other) |-> <<other[i], depth + 1, product_area>>]

\* A faulty variant: a link is queued unless it is visited, whether or not it
\* is in the frontier.
NewItems_IgnoresFrontier(page_data, seen, rest, depth, product_area) ==
  LET fresh(l) == l \notin seen
      same_product_links ==
        SelectSeq(page_data.links,
                  LAMBDA l : fresh(l) /\ product_area_of[l] = product_area)
      other_links ==
        SelectSeq(page_data.links,
                  LAMBDA l : fresh(l) /\ product_area_of[l] # product_area)
      same  == Take(same_product_links, SAME_PRODUCT_LINKS)
      other == Take(other_links, OTHER_LINKS)
  IN  [i \in 1..Len(same) |-> <<same[i], depth + 1, product_area>>]
      \o [i \in 1..Len(other) |-> <<other[i], depth + 1, product_area_of[other[i]]>>]

\* The frontier items a fetched page adds: its links that are neither visited
\* nor in the frontier, the first SAME_PRODUCT_LINKS of its own product area
\* and then the first OTHER_LINKS of the others, at depth + 1.
NewItems(page_data, seen, rest, depth, product_area) ==
  LET fresh(l) == l \notin seen /\ l \notin Frontier(rest)
      same_product_links ==
        SelectSeq(page_data.links,
                  LAMBDA l : fresh(l) /\ product_area_of[l] = product_area)
      other_links ==
        SelectSeq(page_data.links,
                  LAMBDA l : fresh(l) /\ product_area_of[l] # product_area)
      same  == Take(same_product_links, SAME_PRODUCT_LINKS)
      other == Take(other_links, OTHER_LINKS)
  IN  [i \in 1..Len(same) |-> <<same[i], depth + 1, product_area>>]
      \o [i \in 1..Len(other) |-> <<other[i], depth + 1, product_area_of[other[i]]>>]

\* One pass of the while loop that ends at the first `continue`: the head of
\* the frontier is visited already or too deep.
CrawlSkip ==
  /\ pc = "crawl"
  /\ to_visit # <<>>
  /\ SkipItem(Head(to_visit)[1], Head(to_visit)[2])
  /\ to_visit' = Tail(to_visit)
  /\ last_fetch' = NoFetch
  /\ UNCHANGED <<env_vars, probe, inserted, cache_vars, search_vars, pc, start_urls, max_depth,
                 visited, all_pages, product_page_counts, crawl_log, ret>>

\* A faulty variant: an item over budget is put back at the end of the frontier.
CrawlOverBudget_Requeue ==
  /\ pc = "crawl"
  /\ to_visit # <<>>
  /\ LET url          == Head(to_visit)[1]
         depth        == Head(to_visit)[2]
         product_area == product_area_of[url]
         counts       == WithArea(product_page_counts, product_area)
     IN  /\ ~SkipItem(url, depth)
         /\ OverBudget(counts, product_area)
         /\ product_page_counts' = counts
  /\ to_visit' = Append(Tail(to_visit), Head(to_visit))
  /\ last_fetch' = NoFetch
  /\ UNCHANGED <<env_vars, probe, inserted, cache_vars, search_vars, pc, start_urls, max_depth,
                 visited, all_pages, crawl_log, ret>>

\* One pass that ends at the second `continue`: the product area of the head
\* has used up its budget.  The area has been entered into the counts.
CrawlOverBudget ==
  /\ pc = "crawl"
  /\ to_visit # <<>>
  /\ LET url          == Head(to_visit)[1]
         depth        == Head(to_visit)[2]
         product_area == product_area_of[url]
         counts       == WithArea(product_page_counts, product_area)
     IN  /\ ~SkipItem(url, depth)
         /\ OverBudget(counts, product_area)
         /\ product_page_counts' = counts
  /\ to_visit' = Tail(to_visit)
  /\ last_fetch' = NoFetch
  /\ UNCHANGED <<env_vars, probe, inserted, cache_vars, search_vars, pc, start_urls, max_depth,
                 visited, all_pages, crawl_log, ret>>

\* One full pass: the head is marked visited and counted, the politeness
\* delay is taken, the page is fetched, and on success it is recorded and its
\* links are queued.
CrawlVisit ==
  /\ pc = "crawl"
  /\ to_visit # <<>>
  /\ LET url          == Head(to_visit)[1]
         depth        == Head(to_visit)[2]
         rest         == Tail(to_visit)
         product_area == product_area_of[url]
         counts       == WithArea(product_page_counts, product_area)
         seen         == visited \cup {url}
     IN  /\ ~SkipItem(url, depth)
         /\ ~OverBudget(counts, product_area)
         /\ visited' = seen
         /\ product_page_counts' = [counts EXCEPT ![product_area] = @ + 1]
         /\ \E net \in IF url \in DictKeys(page_cache)
                       THEN {[ok |-> TRUE, error |-> "", links |-> <<>>]}
                       ELSE NetOutcomes(url) :
              LET f == fetch_page(url, net)
              IN  /\ page_cache' = f.page_cache
                  /\ url_to_cache_key' = f.url_to_cache_key
                  /\ discovered_urls' = f.discovered_urls
                  /\ last_fetch' = FetchEvent(url, f)
                  /\ crawl_log' = crawl_log
                                    \o PolitenessDelay(seen)
                                    \o <<FetchLogged(url, f)>>
                  /\ all_pages' = RecordPage(all_pages, url, f.page_data)
                  /\ to_visit' =
                       IF f.page_data.success /\ FollowLinks(depth)
                       THEN rest \o NewItems(f.page_data, seen, rest, depth, product_area)
                       ELSE rest
  /\ UNCHANGED <<env_vars, probe, inserted, search_vars, pc, start_urls, max_depth, ret>>

\* The loop has ended: crawl_docs returns all_pages.
CrawlReturn ==
  /\ pc = "crawl"
  /\ to_visit = <<>>
  /\ pc' = "crawled"
  /\ last_fetch' = NoFetch
  /\ UNCHANGED <<env_vars, probe, inserted, cache_vars, crawl_vars, search_vars, ret>>

CrawlNext == CrawlSkip \/ CrawlOverBudget \/ CrawlVisit \/ CrawlReturn


(***************************************************************************)
(* The sites of the model: for each URL the pages it may hold.             *)
(***************************************************************************)

Page(title, content, hrefs) == [title |-> title, content |-> content, hrefs |-> hrefs]

RootPages ==
  { Page("Acquia Product Documentation", "Documentation for every Acquia product.",
         <<uCloud, uDam, uLogin, uExternal>>) }

\* The two layouts of the overview pages: in the first both link to the
\* pinned document, in the second neither does and one has no link at all.
Layouts == {"linked", "sparse"}

CloudPage(layout) ==
  Page("Cloud Platform overview", "Cloud Platform hosts Drupal applications.",
       IF layout = "linked"
       THEN <<uEntry, uCache, MEMCACHED_DOC_URL, uCloud \o "#top">>
       ELSE <<uCache, uAsset, uLogo>>)

DamPage(layout) ==
  Page("Acquia DAM overview", "Acquia DAM stores the assets of a brand.",
       IF layout = "linked" THEN <<uAsset, uCloud, MEMCACHED_DOC_URL>> ELSE <<>>)

CloudPages == {CloudPage(layout) : layout \in Layouts}

DamPages == {DamPage(layout) : layout \in Layouts}

EntryPages ==
  { Page("Cloud Platform", "Guides for Cloud Platform.", <<uCloud>>) }

\* A text that names Memcached n times.
RECURSIVE Repeated(_, _)
Repeated(text, n) == IF n = 0 THEN "" ELSE text \o Repeated(text, n - 1)

CachePages ==
  { Page("Caching on Cloud Platform", "Varnish and the page cache.",
         <<MEMCACHED_DOC_URL, uAsset>>),
    Page("Using Memcached", Repeated("Enable memcached in settings.php. ", 20),
         <<MEMCACHED_DOC_URL, uAsset>>) }

AssetPages ==
  { Page("Assets", "Upload assets to Acquia DAM.", <<uDam, uLogo>>) }

\* The page the site itself serves at MEMCACHED_DOC_URL.
MemcachedPages ==
  { Page("Enabling Memcached on Cloud Platform",
         "To enable Memcached, install the Memcache API and Integration module.",
         <<uCache>>) }

Sites ==
  { [u \in Urls |->
       CASE u = uRoot  -> r
         [] u = uCloud -> CloudPage(layout)
         [] u = uDam   -> DamPage(layout)
         [] u = uEntry -> e
         [] u = uCache -> k
         [] u = uAsset -> a
         [] OTHER      -> m ] :
    r \in RootPages, layout \in Layouts, e \in EntryPages,
    k \in CachePages, a \in AssetPages, m \in MemcachedPages }

(***************************************************************************)
(* direct_search_docs.                                                     *)
(***************************************************************************)

\* The queries of the model: one that is_memcached_related_query accepts and
\* one that it does not.
Queries == {"enable memcached", "dam assets"}

\* get_acquia_guidance joins its two arguments into the query.
GuidanceInputs == {<<"enable", "memcached">>, <<"dam", "assets">>}

\* The pages a URL may hold, over all sites.
SiteMenu(u) ==
  CASE u = uRoot  -> RootPages
    [] u = uCloud -> CloudPages
    [] u = uDam   -> DamPages
    [] u = uEntry -> EntryPages
    [] u = uCache -> CachePages
    [] u = uAsset -> AssetPages
    [] OTHER      -> MemcachedPages

\* What calculate_relevance reads of a page.
TextOf(page_data) ==
  [url |-> page_data.url, title |-> page_data.title, content |-> page_data.content]

Texts ==
  UNION {{[url |-> u, title |-> p.title, content |-> p.content] : p \in SiteMenu(u)} : u \in Urls}
  \cup {TextOf(get_memcached_doc_data)}

\* The queries of a search on its own: those above, the empty query, and one
\* whose words occur in no page.
SearchQueries == Queries \cup {"", "quantum flux"}

\* calculate_relevance and is_memcached_related_query, tabulated over the
\* queries and the pages of the model.
relevance_of == Table([qt \in SearchQueries \X Texts |-> calculate_relevance(qt[1], qt[2])])

\* The score of a page for a query.
Score(q, page_data) == relevance_of[<<q, TextOf(page_data)>>]

memcached_query == Table([q \in SearchQueries |-> is_memcached_related_query(q)])

\* The list of entry points of direct_search_docs: MAIN_DOC_URLS and one of
\* the ten product roots the source appends.
EntryPoints == MAIN_DOC_URLS \o <<uEntry>>

\* The answers of the site's own search page: the request raises (status 0),
\* answers with an error status, or answers 200 with these anchors.
SearchPageAnswers ==
  { [status |-> 0,   hrefs |-> <<>>],
    [status |-> 503, hrefs |-> <<>>],
    [status |-> 503, hrefs |-> <<uCache, uLogin, uCloud>>],
    [status |-> 200, hrefs |-> <<>>],
    [status |-> 200, hrefs |-> <<uCache, uLogin, uCloud>>] }

\* The limit on the links taken from the search page, and the slices of the
\* two second-pass loops.
SEARCH_RESULT_LINKS == 20

HIGH_SCORE_LINKS == 20

OVERVIEW_LINKS == 30

HIGH_SCORE == 50

TOP_RESULTS == 10

\* is_docs_url of an anchor of the search page (its fragment is kept).
search_docs_url == Table([h \in Hrefs |-> is_docs_url(h)])

\* A faulty variant: the anchors of the answer are taken whatever its status.
search_result_links_AnyStatus(answer, urls) ==
  Take(SelectSeq(answer.hrefs, LAMBDA h : search_docs_url[h] /\ h \notin SeqRange(urls)),
       SEARCH_RESULT_LINKS)

\* The URLs the search page adds to doc_urls.
search_result_links(answer, urls) ==
  IF answer.status = 200
  THEN Take(SelectSeq(answer.hrefs, LAMBDA h : search_docs_url[h] /\ h \notin SeqRange(urls)),
            SEARCH_RESULT_LINKS)
  ELSE <<>>

\* A result dict (its snippet and its copy of the content are left out: both
\* are functions of the query and the page).
Result(title, url, relevance) == [title |-> title, url |-> url, relevance |-> relevance]

\* The locals of direct_search_docs(q) once doc_urls is complete.
SearchEntry(who, q, answer) ==
  /\ caller' = who
  /\ search_query' = q
  /\ doc_urls' = EntryPoints \o search_result_links(answer, EntryPoints)
  /\ doc_index' = 1
  /\ pending_links' = <<>>
  /\ link_rule' = ""
  /\ results' = <<>>

\* The locals of direct_search_docs once it has returned.
SearchLocalsGone ==
  /\ caller' = ""
  /\ search_query' = ""
  /\ doc_urls' = <<>>
  /\ doc_index' = 0
  /\ pending_links' = <<>>
  /\ link_rule' = ""
  /\ results' = <<>>

\* any(product in url for product in ['overview', 'web-governance'])
IsOverviewUrl(url) == Contains(url, "overview") \/ Contains(url, "web-governance")

overview_url == Table([u \in Urls |-> IsOverviewUrl(u)])

\* results with the result of a page added when its score is positive.
WithResult(rs, q, url, page_data) ==
  IF page_data.success /\ Score(q, page_data) > 0
  THEN Append(rs, Result(page_data.title, url, Score(q, page_data)))
  ELSE rs

\* The second-pass loop a checked page starts: "high" over the first
\* HIGH_SCORE_LINKS links of a page scoring above HIGH_SCORE, "overview" over
\* the first OVERVIEW_LINKS links of an overview page scoring 0, "" for none.
SecondPass(q, url, page_data) ==
  LET score == Score(q, page_data)
  IN  IF ~page_data.success THEN ""
      ELSE IF score > 0
      THEN IF score > HIGH_SCORE /\ page_data.links # <<>> THEN "high" ELSE ""
      ELSE IF page_data.links # <<>> /\ overview_url[url] THEN "overview" ELSE ""

\* The test that guards the fetch of a linked page in the second pass.
LinkWanted(rule, linked_url) ==
  IF rule = "high"
  THEN linked_url \notin SeqRange(doc_urls)
  ELSE linked_url \notin {results[i].url : i \in 1..Len(results)}

\* One pass of the first loop: doc_urls[doc_index] is fetched and scored; its
\* links are left for the second-pass loop when it starts one.
SearchCheckUrl ==
  /\ pc = "search"
  /\ doc_index <= Len(doc_urls)
  /\ LET url == doc_urls[doc_index]
     IN  \E net \in IF url \in DictKeys(page_cache)
                    THEN {[ok |-> TRUE, error |-> "", links |-> <<>>]}
                    ELSE NetOutcomes(url) :
           LET f    == fetch_page(url, net)
               rule == SecondPass(search_query, url, f.page_data)
           IN  /\ page_cache' = f.page_cache
               /\ url_to_cache_key' = f.url_to_cache_key
               /\ discovered_urls' = f.discovered_urls
               /\ last_fetch' = FetchEvent(url, f)
               /\ results' = WithResult(results, search_query, url, f.page_data)
               /\ link_rule' = rule
               /\ IF rule = ""
                  THEN /\ pending_links' = <<>>
                       /\ doc_index' = doc_index + 1
                       /\ pc' = "search"
                  ELSE /\ pending_links' =
                            Take(f.page_data.links,
                                 IF rule = "high" THEN HIGH_SCORE_LINKS ELSE OVERVIEW_LINKS)
                       /\ doc_index' = doc_index
                       /\ pc' = "search_links"
  /\ UNCHANGED <<env_vars, probe, inserted, crawl_vars, caller, search_query, doc_urls, ret>>

\* The position after one pass of a second-pass loop.
AfterLink ==
  /\ pending_links' = Tail(pending_links)
  /\ IF Tail(pending_links) = <<>>
     THEN /\ pc' = "search"
          /\ doc_index' = doc_index + 1
          /\ link_rule' = ""
     ELSE /\ pc' = "search_links"
          /\ doc_index' = doc_index
          /\ link_rule' = link_rule

\* One pass of a second-pass loop whose link is already covered: no fetch.
SearchSkipLink ==
  /\ pc = "search_links"
  /\ ~LinkWanted(link_rule, Head(pending_links))
  /\ AfterLink
  /\ last_fetch' = NoFetch
  /\ UNCHANGED <<env_vars, probe, inserted, cache_vars, crawl_vars, caller, search_query, doc_urls, results, ret>>

\* One pass of a second-pass loop: the linked page is fetched and scored.
SearchCheckLink ==
  /\ pc = "search_links"
  /\ LinkWanted(link_rule, Head(pending_links))
  /\ LET linked_url == Head(pending_links)
     IN  \E net \in IF linked_url \in DictKeys(page_cache)
                    THEN {[ok |-> TRUE, error |-> "", links |-> <<>>]}
                    ELSE NetOutcomes(linked_url) :
           LET f == fetch_page(linked_url, net)
           IN  /\ page_cache' = f.page_cache
               /\ url_to_cache_key' = f.url_to_cache_key
               /\ discovered_urls' = f.discovered_urls
               /\ last_fetch' = FetchEvent(linked_url, f)
               /\ results' = WithResult(results, search_query, linked_url, f.page_data)
  /\ AfterLink
  /\ UNCHANGED <<env_vars, probe, inserted, crawl_vars, caller, search_query, doc_urls, ret>>

\* results.sort(key=relevance, reverse=True): a stable sort, so results of
\* equal relevance keep their order.
RECURSIVE SortByRelevance(_)
SortByRelevance(rs) ==
  IF rs = <<>> THEN <<>>
  ELSE LET sorted == SortByRelevance(SubSeq(rs, 1, Len(rs) - 1))
           r      == rs[Len(rs)]
           ahead  == {i \in 1..Len(sorted) : sorted[i].relevance >= r.relevance}
           k      == IF ahead = {} THEN 0 ELSE CHOOSE i \in ahead : \A j \in ahead : j <= i
       IN  SubSeq(sorted, 1, k) \o <<r>> \o SubSeq(sorted, k + 1, Len(sorted))

smart_memcached_injection(q, rs) ==
  IF memcached_query[q]
  THEN LET memcached_data == get_memcached_doc_data
           memcached_already_included ==
             \E i \in 1..Len(rs) : rs[i].url = MEMCACHED_DOC_URL
       IN  IF ~memcached_already_included
           THEN <<Result(memcached_data.title, memcached_data.url,
                         Score(q, memcached_data))>> \o rs
           ELSE rs
  ELSE rs

\* The placeholder direct_search_docs returns when it has no result.
NoResults(q) ==
  Result("No results found for \"" \o q \o "\"",
         "https://docs.acquia.com/search/?q=" \o Quote(q), 0)

\* What direct_search_docs returns for the results of its loops.
SearchOutput(q, rs) ==
  LET injected == smart_memcached_injection(q, SortByRelevance(rs))
  IN  IF injected = <<>> THEN <<NoResults(q)>> ELSE Take(injected, TOP_RESULTS)

\* What the handler that called direct_search_docs returns.
HandlerOutput(who, out) ==
  IF who = "get_source_link" THEN <<out[1].url>> ELSE out

\* The first loop has ended: the results are sorted, the pinned document is
\* injected, and the handler returns.
SearchReturn ==
  /\ pc = "search"
  /\ doc_index > Len(doc_urls)
  /\ ret' = Return(caller, search_query, HandlerOutput(caller, SearchOutput(search_query, results)))
  /\ pc' = "respond"
  /\ SearchLocalsGone
  /\ last_fetch' = NoFetch
  /\ UNCHANGED <<env_vars, probe, inserted, cache_vars, crawl_vars>>

SearchNext == SearchCheckUrl \/ SearchSkipLink \/ SearchCheckLink \/ SearchReturn

(***************************************************************************)
(* The handlers of the server.                                             *)
(***************************************************************************)

\* A faulty variant: the pinned document is added only while the cache has
\* room.
initialize_memcached_cache_WhenRoom(cache, keys) ==
  IF Len(cache) < CACHE_SIZE
  THEN add_to_cache(cache, keys, MEMCACHED_DOC_URL, get_memcached_doc_data)
  ELSE [page_cache |-> cache, url_to_cache_key |-> keys, oldest_url |-> ""]

\* initialize_memcached_cache, on the pair (page_cache, url_to_cache_key).
initialize_memcached_cache(cache, keys) ==
  add_to_cache(cache, keys, MEMCACHED_DOC_URL, get_memcached_doc_data)

\* call_tool("search_docs", {query})
CallSearchDocs ==
  /\ pc = "idle"
  /\ \E q \in Queries, answer \in SearchPageAnswers : SearchEntry("search_docs", q, answer)
  /\ pc' = "search"
  /\ last_fetch' = NoFetch
  /\ ret' = NoReturn
  /\ UNCHANGED <<env_vars, probe, inserted, cache_vars, crawl_vars>>

\* call_tool("get_acquia_guidance", {context, requirements})
CallGuidance ==
  /\ pc = "idle"
  /\ \E input \in GuidanceInputs, answer \in SearchPageAnswers :
       SearchEntry("get_acquia_guidance", input[1] \o " " \o input[2], answer)
  /\ pc' = "search"
  /\ last_fetch' = NoFetch
  /\ ret' = NoReturn
  /\ UNCHANGED <<env_vars, probe, inserted, cache_vars, crawl_vars>>

\* call_tool("get_source_link", {query}) for a query about Memcached: the
\* pinned URL is returned at once.
CallSourceLinkPinned ==
  /\ pc = "idle"
  /\ \E q \in Queries :
       /\ memcached_query[q]
       /\ ret' = Return("get_source_link", q, <<MEMCACHED_DOC_URL>>)
  /\ pc' = "respond"
  /\ last_fetch' = NoFetch
  /\ UNCHANGED <<env_vars, probe, inserted, cache_vars, crawl_vars, search_vars>>

\* call_tool("get_source_link", {query}) for any other query: a search.
CallSourceLinkSearch ==
  /\ pc = "idle"
  /\ \E q \in Queries, answer \in SearchPageAnswers :
       /\ ~memcached_query[q]
       /\ SearchEntry("get_source_link", q, answer)
  /\ pc' = "search"
  /\ last_fetch' = NoFetch
  /\ ret' = NoReturn
  /\ UNCHANGED <<env_vars, probe, inserted, cache_vars, crawl_vars>>

\* The seeds of crawl_docs when start_urls is None.
DefaultSeeds == <<DRUPAL_DOCS_START>> \o MAIN_DOC_URLS

\* call_tool("crawl_docs", {max_depth}): crawl_docs is entered with the
\* default seeds.
CallCrawlDocs ==
  /\ pc = "idle"
  /\ \E depth \in -1..MaxDepth : CrawlEntry(DefaultSeeds, depth)
  /\ pc' = "crawl"
  /\ last_fetch' = NoFetch
  /\ ret' = NoReturn
  /\ UNCHANGED <<env_vars, probe, inserted, cache_vars, search_vars>>

\* A faulty variant: a page that is not cached is added whatever the size of
\* the cache.
RECURSIVE MergeCrawled_IgnoresCapacity(_, _)
MergeCrawled_IgnoresCapacity(cache, pages) ==
  IF pages = <<>> THEN cache
  ELSE MergeCrawled_IgnoresCapacity(IF Head(pages).url \notin DictKeys(cache)
                                    THEN DictSet(cache, Head(pages).url, Head(pages))
                                    ELSE cache,
                                    Tail(pages))

\* The pages of the crawl that the handler adds to the cache: in the order of
\* all_pages, each page whose URL is not cached while the cache is not full.
RECURSIVE MergeCrawled(_, _)
MergeCrawled(cache, pages) ==
  IF pages = <<>> THEN cache
  ELSE MergeCrawled(IF Head(pages).url \notin DictKeys(cache) /\ Len(cache) < CACHE_SIZE
                    THEN DictSet(cache, Head(pages).url, Head(pages))
                    ELSE cache,
                    Tail(pages))

\* call_tool("crawl_docs") after crawl_docs has returned: the merge into the
\* cache and the summary.
CrawlDocsMerge ==
  /\ pc = "crawled"
  /\ page_cache' = MergeCrawled(page_cache, all_pages)
  /\ ret' = Return("crawl_docs", max_depth,
                   [ crawled |-> Len(all_pages),
                     added   |-> Len(MergeCrawled(page_cache, all_pages)) - Len(page_cache),
                     cached  |-> Len(MergeCrawled(page_cache, all_pages)) ])
  /\ pc' = "respond"
  /\ CrawlLocalsGone
  /\ last_fetch' = NoFetch
  /\ UNCHANGED <<env_vars, probe, inserted, url_to_cache_key, discovered_urls, search_vars>>

\* A faulty variant: url_to_cache_key is left as it is.
refresh_docs_KeepsKeys ==
  [page_cache |-> <<>>, url_to_cache_key |-> url_to_cache_key, discovered_urls |-> {}]

\* page_cache.clear(); url_to_cache_key.clear(); discovered_urls.clear()
refresh_docs == [page_cache |-> <<>>, url_to_cache_key |-> {}, discovered_urls |-> {}]

\* call_tool("refresh_docs")
CallRefreshDocs ==
  /\ pc = "idle"
  /\ page_cache' = refresh_docs.page_cache
  /\ url_to_cache_key' = refresh_docs.url_to_cache_key
  /\ discovered_urls' = refresh_docs.discovered_urls
  /\ ret' = Return("refresh_docs", "", <<>>)
  /\ pc' = "respond"
  /\ last_fetch' = NoFetch
  /\ UNCHANGED <<env_vars, probe, inserted, crawl_vars, search_vars>>

\* call_tool("list_cached_urls"): the cache is read in its order.
ListCachedUrls ==
  /\ pc = "idle"
  /\ ret' = Return("list_cached_urls", "", [i \in 1..Len(page_cache) |-> page_cache[i].url])
  /\ pc' = "respond"
  /\ last_fetch' = NoFetch
  /\ UNCHANGED <<env_vars, probe, inserted, cache_vars, crawl_vars, search_vars>>

\* call_tool("crawl_stats"): the cached URLs of each product area.
CrawlStats ==
  /\ pc = "idle"
  /\ ret' = Return("crawl_stats", "",
                   [a \in {product_area_of[u] : u \in DictKeys(page_cache)} |->
                      SelectSeq([i \in 1..Len(page_cache) |-> page_cache[i].url],
                                LAMBDA u : product_area_of[u] = a)])
  /\ pc' = "respond"
  /\ last_fetch' = NoFetch
  /\ UNCHANGED <<env_vars, probe, inserted, cache_vars, crawl_vars, search_vars>>

\* The URL read_resource takes from the URI of a resource.
resource_url == Table([u \in Urls |-> StrReplace("drupal://" \o u, "drupal://", "")])

\* list_resources(): the pinned document is put back when it is missing; the
\* URLs of the cache are returned in the cache's order.
ListResources ==
  /\ pc = "idle"
  /\ LET c == IF MEMCACHED_DOC_URL \notin DictKeys(page_cache)
              THEN initialize_memcached_cache(page_cache, url_to_cache_key)
              ELSE [page_cache |-> page_cache, url_to_cache_key |-> url_to_cache_key]
     IN  /\ page_cache' = c.page_cache
         /\ url_to_cache_key' = c.url_to_cache_key
         /\ ret' = Return("list_resources", "",
                          [i \in 1..Len(c.page_cache) |-> "drupal://" \o c.page_cache[i].url])
  /\ pc' = "respond"
  /\ last_fetch' = NoFetch
  /\ UNCHANGED <<env_vars, probe, inserted, discovered_urls, crawl_vars, search_vars>>

\* read_resource(uri) of the pinned document: it is put back when missing.
ReadPinnedResource ==
  /\ pc = "idle"
  /\ LET uri == "drupal://" \o MEMCACHED_DOC_URL
         url == resource_url[MEMCACHED_DOC_URL]
         c   == IF url \notin DictKeys(page_cache)
                THEN initialize_memcached_cache(page_cache, url_to_cache_key)
                ELSE [page_cache |-> page_cache, url_to_cache_key |-> url_to_cache_key]
     IN  /\ url = MEMCACHED_DOC_URL
         /\ page_cache' = c.page_cache
         /\ url_to_cache_key' = c.url_to_cache_key
         /\ ret' = Return("read_resource", uri, <<DictGet(c.page_cache, url).title>>)
  /\ pc' = "respond"
  /\ last_fetch' = NoFetch
  /\ UNCHANGED <<env_vars, probe, inserted, discovered_urls, crawl_vars, search_vars>>

\* read_resource(uri) of any other page: from the cache, or fetched.
ReadResource ==
  /\ pc = "idle"
  /\ \E u \in Urls \ {MEMCACHED_DOC_URL} :
       LET url == resource_url[u]
       IN  \E net \in IF url \in DictKeys(page_cache)
                      THEN {[ok |-> TRUE, error |-> "", links |-> <<>>]}
                      ELSE NetOutcomes(url) :
             LET f == fetch_page(url, net)
             IN  /\ page_cache' = f.page_cache
                 /\ url_to_cache_key' = f.url_to_cache_key
                 /\ discovered_urls' = f.discovered_urls
                 /\ last_fetch' = IF url \in DictKeys(page_cache) THEN NoFetch
                                  ELSE FetchEvent(url, f)
                 /\ ret' = Return("read_resource", "drupal://" \o u,
                                  IF f.page_data.success THEN <<f.page_data.title>>
                                  ELSE <<"Content not available for " \o url>>)
  /\ pc' = "respond"
  /\ UNCHANGED <<env_vars, probe, inserted, crawl_vars, search_vars>>

(***************************************************************************)
(* crawl_docs called with arbitrary arguments.                             *)
(***************************************************************************)

\* The seed lists tried: every list of up to MaxSeeds of these URLs, a URL
\* possibly more than once, and the default list of the source.
SeedUrls == {uCloud, uDam, MEMCACHED_DOC_URL}

SeedLists ==
  UNION {[1..n -> SeedUrls] : n \in 0..MaxSeeds} \cup {DefaultSeeds}

\* crawl_docs reads the links of a page and never its text: the sites of a
\* crawl are one per layout.
CrawlSites == {site \in Sites : site[uCache].title = "Caching on Cloud Platform"}

\* crawl_docs(seeds, depth) entered right after startup (the cache holds the
\* pinned document) or after refresh_docs (the cache is empty).
InitCrawl ==
  /\ CACHE_SIZE \in 1..MaxCacheSize
  /\ web \in CrawlSites
  /\ \E preload \in BOOLEAN :
       LET c == IF preload THEN initialize_memcached_cache(<<>>, {})
                ELSE [page_cache |-> <<>>, url_to_cache_key |-> {}]
       IN  /\ page_cache = c.page_cache
           /\ url_to_cache_key = c.url_to_cache_key
  /\ discovered_urls = {}
  /\ pc = "crawl"
  /\ start_urls \in SeedLists
  /\ max_depth \in -1..MaxDepth
  /\ visited = {}
  /\ to_visit = [i \in 1..Len(start_urls) |-> <<start_urls[i], 0, "main">>]
  /\ all_pages = <<>>
  /\ product_page_counts = <<>>
  /\ crawl_log = <<>>
  /\ SearchIdle
  /\ inserted = <<>>
  /\ probe = NoProbe
  /\ last_fetch = NoFetch
  /\ ret = NoReturn

SpecCrawl == InitCrawl /\ [][CrawlNext]_vars


\* crawl_docs runs on: the while loop is never suspended between two passes.
SpecCrawlLive == InitCrawl /\ [][CrawlNext]_vars /\ WF_vars(CrawlNext)

(***************************************************************************)
(* direct_search_docs called with arbitrary queries.                       *)
(***************************************************************************)

\* The answer the search page gave to the request of direct_search_docs.
SearchPageProbe(answer) == [fn |-> "search_page", answer |-> answer]

\* search_docs(q) received right after startup (the cache holds the pinned
\* document) or after refresh_docs (the cache is empty).
InitSearch ==
  /\ CACHE_SIZE \in 1..MaxCacheSize
  /\ web \in Sites
  /\ \E preload \in BOOLEAN :
       LET c == IF preload THEN initialize_memcached_cache(<<>>, {})
                ELSE [page_cache |-> <<>>, url_to_cache_key |-> {}]
       IN  /\ page_cache = c.page_cache
           /\ url_to_cache_key = c.url_to_cache_key
  /\ discovered_urls = {}
  /\ pc = "search"
  /\ start_urls = <<>>
  /\ max_depth = 0
  /\ visited = {}
  /\ to_visit = <<>>
  /\ all_pages = <<>>
  /\ product_page_counts = <<>>
  /\ crawl_log = <<>>
  /\ caller = "search_docs"
  /\ search_query \in SearchQueries
  /\ \E answer \in SearchPageAnswers :
       /\ doc_urls = EntryPoints \o search_result_links(answer, EntryPoints)
       /\ probe = SearchPageProbe(answer)
  /\ doc_index = 1
  /\ pending_links = <<>>
  /\ link_rule = ""
  /\ results = <<>>
  /\ inserted = <<>>
  /\ last_fetch = NoFetch
  /\ ret = NoReturn

SpecSearch == InitSearch /\ [][SearchNext]_vars

(***************************************************************************)
(* calculate_relevance called on its own: a page is scored, text is        *)
(* inserted somewhere into its content, and it is scored again.            *)
(***************************************************************************)

MaxEdits == 1

MaxContentLen == 40

ShortContents == {"", "dam assets", "enable memcached in settings.php"}

\* The pages scored: the pinned document, the page of the model that names
\* Memcached most, and short pages under two titles.
ScorePages ==
  {TextOf(get_memcached_doc_data)}
  \cup {[url |-> uCache, title |-> k.title, content |-> k.content] : k \in CachePages}
  \cup {[url |-> uCache, title |-> t, content |-> c] :
          t \in {"Assets", "Using Memcached"}, c \in ShortContents}

\* The texts inserted: query words and a letter.
Fragments == {"assets", "memcached", "x"}

\* The arguments of a call of calculate_relevance and its result; `shorter`
\* is the content before the last insertion and shorter_score its score.
ScoreProbe(q, page_data, score, shorter, shorter_score, edits) ==
  [ fn |-> "calculate_relevance", query |-> q, page_data |-> page_data, score |-> score,
    shorter |-> shorter, shorter_score |-> shorter_score, edits |-> edits ]

\* s with text put in after its first k characters.
InsertAt(s, k, text) == SubSeq(s, 1, k) \o text \o SubSeq(s, k + 1, Len(s))

\* score = calculate_relevance(query, page_data)
CallCalculateRelevance ==
  /\ pc = "score"
  /\ probe' = [probe EXCEPT !.score = calculate_relevance(probe.query, probe.page_data)]
  /\ pc' = "scored"
  /\ UNCHANGED <<env_vars, inserted, cache_vars, crawl_vars, search_vars, last_fetch, ret>>

\* The content of the scored page gets a text inserted, at any place.
InsertText ==
  /\ pc = "scored"
  /\ probe.edits < MaxEdits
  /\ \E text \in Fragments, k \in 0..Len(probe.page_data.content) :
       /\ Len(probe.page_data.content) + Len(text) <= MaxContentLen
       /\ probe' = ScoreProbe(probe.query,
                              [probe.page_data EXCEPT !.content = InsertAt(@, k, text)],
                              0, probe.page_data.content, probe.score, probe.edits + 1)
  /\ pc' = "score"
  /\ UNCHANGED <<env_vars, inserted, cache_vars, crawl_vars, search_vars, last_fetch, ret>>

InitScore ==
  /\ CACHE_SIZE = 1
  /\ web = CHOOSE site \in Sites : TRUE
  /\ page_cache = <<>>
  /\ url_to_cache_key = {}
  /\ discovered_urls = {}
  /\ inserted = <<>>
  /\ pc = "score"
  /\ start_urls = <<>>
  /\ max_depth = 0
  /\ visited = {}
  /\ to_visit = <<>>
  /\ all_pages = <<>>
  /\ product_page_counts = <<>>
  /\ crawl_log = <<>>
  /\ SearchIdle
  /\ last_fetch = NoFetch
  /\ ret = NoReturn
  /\ \E q \in Queries, page_data \in ScorePages :
       probe = ScoreProbe(q, page_data, 0, page_data.content, 0, 0)

SpecScore == InitScore /\ [][CallCalculateRelevance \/ InsertText]_vars

(***************************************************************************)
(* is_docs_url and get_product_area called on their own.                   *)
(***************************************************************************)

MaxSegments == 2

ClassifierHosts == {"https://docs.acquia.com", "https://www.acquia.com"}

Segments ==
  { "/acquia-cloud-platform", "/acquia-dam", "/Web-Governance", "/guide",
    "/admin", "/user/login", "/themes", "/contact-us" }

\* The paths of up to n segments.
RECURSIVE SegmentPaths(_)
SegmentPaths(n) ==
  IF n = 0 THEN {""}
  ELSE SegmentPaths(n - 1) \cup {p \o seg : p \in SegmentPaths(n - 1), seg \in Segments}

Endings == {"", "/", ".png", ".JS", "/overview"}

QueryAndFragment == {"", "?next=/acquia-dam", "#/admin/"}

\* The URLs classified: under the documentation host and under another one,
\* the root path and the empty path among them.
ClassifierUrls ==
  {host \o p \o ending \o rest :
     host \in ClassifierHosts, p \in SegmentPaths(MaxSegments),
     ending \in Endings, rest \in QueryAndFragment}

\* The argument of a call of one of the two classifiers and its result.
ClassifierProbe(fn, url, result) == [fn |-> fn, url |-> url, result |-> result]

CallIsDocsUrl ==
  /\ pc = "classify"
  /\ probe' = ClassifierProbe("is_docs_url", probe.url, is_docs_url(probe.url))
  /\ pc' = "classified"
  /\ UNCHANGED <<env_vars, inserted, cache_vars, crawl_vars, search_vars, last_fetch, ret>>

CallGetProductArea ==
  /\ pc = "classify"
  /\ probe' = ClassifierProbe("get_product_area", probe.url, get_product_area(probe.url))
  /\ pc' = "classified"
  /\ UNCHANGED <<env_vars, inserted, cache_vars, crawl_vars, search_vars, last_fetch, ret>>

InitClassify ==
  /\ CACHE_SIZE = 1
  /\ web = CHOOSE site \in Sites : TRUE
  /\ page_cache = <<>>
  /\ url_to_cache_key = {}
  /\ discovered_urls = {}
  /\ inserted = <<>>
  /\ pc = "classify"
  /\ start_urls = <<>>
  /\ max_depth = 0
  /\ visited = {}
  /\ to_visit = <<>>
  /\ all_pages = <<>>
  /\ product_page_counts = <<>>
  /\ crawl_log = <<>>
  /\ SearchIdle
  /\ last_fetch = NoFetch
  /\ ret = NoReturn
  /\ \E url \in ClassifierUrls : probe = ClassifierProbe("", url, "")

SpecClassify == InitClassify /\ [][CallIsDocsUrl \/ CallGetProductArea]_vars

(***************************************************************************)
(* fetch_page called on its own, any number of times up to MaxFetches.     *)
(***************************************************************************)

MaxFetches == 3

FetchUrls == {uCloud, uDam, uCache, MEMCACHED_DOC_URL}

\* The argument of the last call of fetch_page, the record it returned, and
\* the number of calls so far.
FetchProbe(url, page_data, calls) ==
  [fn |-> "fetch_page", url |-> url, page_data |-> page_data, calls |-> calls]

\* page_data = fetch_page(url)
CallFetchPage ==
  /\ pc = "fetch"
  /\ probe.calls < MaxFetches
  /\ \E url \in FetchUrls :
       \E net \in IF url \in DictKeys(page_cache)
                  THEN {[ok |-> TRUE, error |-> "", links |-> <<>>]}
                  ELSE NetOutcomes(url) :
         LET f == fetch_page(url, net)
         IN  /\ page_cache' = f.page_cache
             /\ url_to_cache_key' = f.url_to_cache_key
             /\ discovered_urls' = f.discovered_urls
             /\ last_fetch' = FetchEvent(url, f)
             /\ probe' = FetchProbe(url, f.page_data, probe.calls + 1)
  /\ UNCHANGED <<env_vars, inserted, pc, crawl_vars, search_vars, ret>>

\* The state right after startup: the cache holds the pinned document.
InitFetch ==
  /\ CACHE_SIZE \in 1..MaxCacheSize
  /\ web \in CrawlSites
  /\ page_cache = initialize_memcached_cache(<<>>, {}).page_cache
  /\ url_to_cache_key = initialize_memcached_cache(<<>>, {}).url_to_cache_key
  /\ discovered_urls = {}
  /\ inserted = <<>>
  /\ pc = "fetch"
  /\ start_urls = <<>>
  /\ max_depth = 0
  /\ visited = {}
  /\ to_visit = <<>>
  /\ all_pages = <<>>
  /\ product_page_counts = <<>>
  /\ crawl_log = <<>>
  /\ SearchIdle
  /\ last_fetch = NoFetch
  /\ ret = NoReturn
  /\ probe = FetchProbe("", get_memcached_doc_data, 0)

SpecFetch == InitFetch /\ [][CallFetchPage]_vars

\* The server's loop: the handler's return value is sent to the client, and
\* the server waits for the next request.
Respond ==
  /\ pc = "respond"
  /\ pc' = "idle"
  /\ ret' = NoReturn
  /\ last_fetch' = NoFetch
  /\ UNCHANGED <<env_vars, probe, inserted, cache_vars, crawl_vars, search_vars>>

(***************************************************************************)
(* The server: main() preloads the pinned document, then the handlers run  *)
(* one at a time.                                                          *)
(***************************************************************************)

Init ==
  /\ CACHE_SIZE \in 1..MaxCacheSize
  /\ web \in Sites
  /\ page_cache = initialize_memcached_cache(<<>>, {}).page_cache
  /\ url_to_cache_key = initialize_memcached_cache(<<>>, {}).url_to_cache_key
  /\ discovered_urls = {}
  /\ pc = "idle"
  /\ start_urls = <<>>
  /\ max_depth = 0
  /\ visited = {}
  /\ to_visit = <<>>
  /\ all_pages = <<>>
  /\ product_page_counts = <<>>
  /\ crawl_log = <<>>
  /\ SearchIdle
  /\ inserted = <<>>
  /\ probe = NoProbe
  /\ last_fetch = NoFetch
  /\ ret = NoReturn

Next ==
  \/ CallSearchDocs
  \/ CallGuidance
  \/ CallSourceLinkPinned
  \/ CallSourceLinkSearch
  \/ SearchCheckUrl
  \/ SearchSkipLink
  \/ SearchCheckLink
  \/ SearchReturn
  \/ CallCrawlDocs
  \/ CrawlSkip
  \/ CrawlOverBudget
  \/ CrawlVisit
  \/ CrawlReturn
  \/ CrawlDocsMerge
  \/ CallRefreshDocs
  \/ ListCachedUrls
  \/ CrawlStats
  \/ ListResources
  \/ ReadPinnedResource
  \/ ReadResource
  \/ Respond

Spec == Init /\ [][Next]_vars

(***************************************************************************)
(* add_to_cache on its own: from an empty cache of any capacity, any       *)
(* sequence of insertions, in which a URL may come again.                  *)
(***************************************************************************)

MaxInsertions == 4

CacheUrls == {uCloud, uDam, uCache}

\* The page_data of a successful fetch of url.
FetchedPage(url) ==
  [ url     |-> url,
    title   |-> web[url].title,
    content |-> web[url].content,
    links   |-> <<>>,
    success |-> TRUE ]

AddToCache ==
  /\ pc = "cache"
  /\ Len(inserted) < MaxInsertions
  /\ \E url \in CacheUrls :
       /\ page_cache' =
            add_to_cache(page_cache, url_to_cache_key, url, FetchedPage(url)).page_cache
       /\ url_to_cache_key' =
            add_to_cache(page_cache, url_to_cache_key, url, FetchedPage(url)).url_to_cache_key
       /\ inserted' = Append(inserted, url)
  /\ UNCHANGED <<env_vars, probe, discovered_urls, pc, crawl_vars, search_vars, last_fetch, ret>>

InitCache ==
  /\ CACHE_SIZE \in 1..MaxCacheSize
  /\ web = CHOOSE site \in Sites : TRUE
  /\ page_cache = <<>>
  /\ url_to_cache_key = {}
  /\ discovered_urls = {}
  /\ inserted = <<>>
  /\ probe = NoProbe
  /\ pc = "cache"
  /\ start_urls = <<>>
  /\ max_depth = 0
  /\ visited = {}
  /\ to_visit = <<>>
  /\ all_pages = <<>>
  /\ product_page_counts = <<>>
  /\ crawl_log = <<>>
  /\ SearchIdle
  /\ last_fetch = NoFetch
  /\ ret = NoReturn

SpecCache == InitCache /\ [][AddToCache]_vars

\* The entry of `inserted` that stands for a call of refresh_docs.
ClearMark == "refresh_docs"

\* The statements of the refresh_docs branch, between calls of add_to_cache.
ClearCache ==
  /\ pc = "cache"
  /\ Len(inserted) < MaxInsertions
  /\ page_cache' = refresh_docs.page_cache
  /\ url_to_cache_key' = refresh_docs.url_to_cache_key
  /\ discovered_urls' = refresh_docs.discovered_urls
  /\ inserted' = Append(inserted, ClearMark)
  /\ UNCHANGED <<env_vars, probe, pc, crawl_vars, search_vars, last_fetch, ret>>

\* add_to_cache and refresh_docs in any order.
SpecCacheClear == InitCache /\ [][AddToCache \/ ClearCache]_vars

(***************************************************************************)
(* Properties of the page cache.                                           *)
(***************************************************************************)

\* C1: whatever tools are called after startup, the page cache never holds
\* more than CACHE_SIZE entries.
C1_CacheWithinCapacity == Len(page_cache) <= CACHE_SIZE

\* A fetch has just put a page into a full cache.
C1_Witness ==
  /\ last_fetch.outcome = "fetched"
  /\ last_fetch.evicted # ""
  /\ Len(page_cache) = CACHE_SIZE

\* The URLs a step adds to the cache.
NewUrls == DictKeys(page_cache') \ DictKeys(page_cache)

\* C2: a step that puts a new URL into a full cache removes exactly the
\* entry at the head of the insertion order and appends the new one, so the
\* entries that stay keep their order; a cache hit leaves the cache, and so
\* the entry evicted next, as it was.
C2_FifoEviction ==
  [][ /\ (Len(page_cache) = CACHE_SIZE /\ NewUrls # {})
           => /\ Cardinality(NewUrls) = 1
              /\ Len(page_cache') = CACHE_SIZE
              /\ SubSeq(page_cache', 1, CACHE_SIZE - 1) = Tail(page_cache)
              /\ page_cache'[CACHE_SIZE].url \in NewUrls
              /\ Head(page_cache).url \notin DictKeys(page_cache')
      /\ last_fetch'.outcome = "hit" => page_cache' = page_cache ]_vars

\* A cache of two entries after an eviction: the second entry of before is
\* now the first.
C2_Witness ==
  /\ CACHE_SIZE = 2
  /\ last_fetch.outcome = "fetched"
  /\ last_fetch.evicted # ""
  /\ Len(page_cache) = 2
  /\ page_cache[2].url = last_fetch.url

\* The last n distinct URLs of a sequence of insertions (all of them when
\* there are fewer than n).
RECURSIVE MostRecentDistinct(_, _)
MostRecentDistinct(urls, n) ==
  IF urls = <<>> \/ n = 0 THEN {}
  ELSE LET last == urls[Len(urls)]
       IN  {last} \cup MostRecentDistinct(SelectSeq(urls, LAMBDA u : u # last), n - 1)

\* C3: after more than CACHE_SIZE calls of add_to_cache, naming at least
\* CACHE_SIZE distinct URLs, the cache holds exactly the CACHE_SIZE most
\* recently inserted distinct URLs.
C3_HoldsMostRecentDistinct ==
  (Len(inserted) > CACHE_SIZE /\ Cardinality(SeqRange(inserted)) >= CACHE_SIZE)
    => DictKeys(page_cache) = MostRecentDistinct(inserted, CACHE_SIZE)

\* C16: every call of fetch_page returns a record: one with success, and
\* then the page is in the cache, or one without success and without links
\* that is classified as a network error or a parse error, and then the cache
\* and url_to_cache_key are as before the call; no record without success is
\* ever in the cache.
C16_FailureIsReturnedNotCached ==
  /\ [][probe'.calls > probe.calls
         => IF probe'.page_data.success
            THEN probe'.url \in DictKeys(page_cache')
            ELSE /\ probe'.page_data.content \in {"Network error", "Parse error"}
                 /\ probe'.page_data.links = <<>>
                 /\ page_cache' = page_cache
                 /\ url_to_cache_key' = url_to_cache_key]_vars
  /\ [](\A i \in 1..Len(page_cache) : page_cache[i].success)

\* C16, its case: a fetch has failed on a parse error, after the links of the
\* page were seen, while the cache, of capacity two, was full.
C16_Witness ==
  /\ probe.calls > 0
  /\ ~probe.page_data.success
  /\ probe.page_data.content = "Parse error"
  /\ probe.url \notin DictKeys(page_cache)
  /\ discovered_urls # {}
  /\ CACHE_SIZE = 2
  /\ Len(page_cache) = 2

\* What is left of a sequence of calls after its last refresh_docs.
RECURSIVE SinceClear(_)
SinceClear(calls) ==
  IF calls = <<>> \/ calls[Len(calls)] = ClearMark THEN <<>>
  ELSE Append(SinceClear(SubSeq(calls, 1, Len(calls) - 1)), calls[Len(calls)])

\* The cache and its bookkeeping after these insertions into an empty cache.
RECURSIVE Replay(_)
Replay(urls) ==
  IF urls = <<>> THEN [page_cache |-> <<>>, url_to_cache_key |-> {}]
  ELSE LET before == Replay(SubSeq(urls, 1, Len(urls) - 1))
           added  == add_to_cache(before.page_cache, before.url_to_cache_key,
                                  urls[Len(urls)], FetchedPage(urls[Len(urls)]))
       IN  [page_cache |-> added.page_cache, url_to_cache_key |-> added.url_to_cache_key]

PinnedResource == "drupal://" \o MEMCACHED_DOC_URL

\* C18: at startup the cache holds the pinned document, and whatever was
\* called before, list_resources lists the pinned document, which is then in
\* the cache, and the cache is within its capacity.
C18_PinnedDocumentAlwaysListed ==
  /\ MEMCACHED_DOC_URL \in DictKeys(page_cache)
  /\ []((pc = "respond" /\ ret.tool = "list_resources")
          => /\ PinnedResource \in SeqRange(ret.value)
             /\ MEMCACHED_DOC_URL \in DictKeys(page_cache)
             /\ Len(page_cache) <= CACHE_SIZE
             /\ Len(ret.value) = Len(page_cache))

\* C18, its case: list_resources has put the pinned document back into a
\* full cache of two entries, behind a page fetched after startup.
C18_Witness ==
  /\ pc = "respond"
  /\ ret.tool = "list_resources"
  /\ CACHE_SIZE = 2
  /\ Len(page_cache) = 2
  /\ page_cache[1].url # MEMCACHED_DOC_URL
  /\ page_cache[2].url = MEMCACHED_DOC_URL

\* C19 as stated: no step of any operation, refresh_docs included, takes a
\* URL out of discovered_urls.
C19_RegistryAppendOnly == [][discovered_urls \subseteq discovered_urls']_vars

\* C19, amended: no step takes a URL out of discovered_urls, except the step
\* of refresh_docs, which empties it.
C19_RegistryAppendOnlyUntilCleared ==
  [][IF pc = "idle" /\ ret'.tool = "refresh_docs"
     THEN discovered_urls' = {}
     ELSE discovered_urls \subseteq discovered_urls']_vars

\* C19, its case: a fetch has added links to those of an earlier fetch (no
\* page of the model has more than three links).
C19_Witness ==
  /\ last_fetch.outcome = "fetched"
  /\ Cardinality(discovered_urls) > 3

(***************************************************************************)
(* Properties of the search.                                               *)
(***************************************************************************)

SearchTools == {"search_docs", "get_acquia_guidance"}

\* C9: for a query about Memcached the first result a search tool returns is
\* the pinned document.
C9_PinnedDocumentFirst ==
  (pc = "respond" /\ ret.tool \in SearchTools /\ memcached_query[ret.argument])
    => ret.value[1].url = MEMCACHED_DOC_URL

\* C10: the results a search tool returns are at most TOP_RESULTS and go
\* down in relevance.
C10_RankedDescending ==
  (pc = "respond" /\ ret.tool \in SearchTools)
    => /\ Len(ret.value) <= TOP_RESULTS
       /\ \A i \in 1..(Len(ret.value) - 1) :
            ret.value[i].relevance >= ret.value[i + 1].relevance

\* Some word of the query occurs in the title or in the text of the page.
HasMatch(q, text) ==
  \E i \in 1..Len(SplitWords(Lower(q))) :
    \/ Contains(Lower(text.title), SplitWords(Lower(q))[i])
    \/ Contains(Lower(text.content), SplitWords(Lower(q))[i])

has_match == Table([qt \in SearchQueries \X Texts |-> HasMatch(qt[1], qt[2])])

\* No page of the site has a match for the query.
NoPageMatches(q) ==
  \A u \in Urls :
    ~has_match[<<q, [url |-> u, title |-> web[u].title, content |-> web[u].content]>>]

\* C11: a search never returns an empty sequence, and for the empty query and
\* for a query that matches no page it returns exactly the placeholder entry:
\* relevance 0 and the URL of the manual search.
C11_PlaceholderWhenNoMatch ==
  (pc = "respond" /\ ret.tool \in SearchTools)
    => /\ ret.value # <<>>
       /\ (ret.argument = "" \/ NoPageMatches(ret.argument))
            => ret.value = <<NoResults(ret.argument)>>

(***************************************************************************)
(* Properties of calculate_relevance.                                      *)
(***************************************************************************)

\* The occurrences of `sub` in the scored content do not go down with the
\* last insertion.
NotFewer(sub) ==
  StrCount(Lower(probe.shorter), sub) <= StrCount(Lower(probe.page_data.content), sub)

\* No query word has fewer occurrences in the content than before the
\* insertion.
WordsNotFewer ==
  \A i \in 1..Len(SplitWords(Lower(probe.query))) : NotFewer(SplitWords(Lower(probe.query))[i])

\* Neither has the whole query nor, for a query about Memcached, a keyword of
\* the boost.
OtherSignalsNotFewer ==
  /\ NotFewer(Lower(probe.query))
  /\ is_memcached_related_query(probe.query)
       => \A i \in 1..Len(memcache_keywords) : NotFewer(memcache_keywords[i])

\* C12 as stated: the score is never negative, and with query, title and URL
\* fixed it does not go down when no query word loses an occurrence in the
\* content.
C12_MonotoneInWordCounts ==
  pc = "scored"
    => /\ probe.score >= 0
       /\ (probe.edits > 0 /\ WordsNotFewer) => probe.score >= probe.shorter_score

\* C12, amended: the score is never negative, and with query, title and URL
\* fixed it does not go down when no query word, nor the whole query, nor (for
\* a query about Memcached) a boost keyword loses an occurrence.
C12_MonotoneInAllCounts ==
  pc = "scored"
    => /\ probe.score >= 0
       /\ (probe.edits > 0 /\ WordsNotFewer /\ OtherSignalsNotFewer)
            => probe.score >= probe.shorter_score

\* C12, its case: an insertion has added an occurrence of a query word and
\* taken none of the other occurrences away, and the score went up.
C12_Witness ==
  /\ pc = "scored"
  /\ probe.edits > 0
  /\ WordsNotFewer
  /\ OtherSignalsNotFewer
  /\ \E i \in 1..Len(SplitWords(Lower(probe.query))) :
       StrCount(Lower(probe.shorter), SplitWords(Lower(probe.query))[i])
         < StrCount(Lower(probe.page_data.content), SplitWords(Lower(probe.query))[i])
  /\ probe.score > probe.shorter_score

\* C13: for a query about Memcached the pinned document scores strictly
\* higher than any page at another URL.
C13_PinnedOutscoresEveryPage ==
  (pc = "scored" /\ memcached_query[probe.query] /\ probe.page_data.url # MEMCACHED_DOC_URL)
    => Score(probe.query, get_memcached_doc_data) > probe.score

(***************************************************************************)
(* Properties of the URL classifier.                                       *)
(***************************************************************************)

\* The path of the classified URL, in lower case.
ProbedPath == Lower(UrlPath(probe.url))

\* The i-th marker occurs in the path of the classified URL.
MarkerOccurs(i) == Contains(ProbedPath, "/" \o product_markers[i])

\* C14: get_product_area gives every URL exactly one product area: the first
\* marker of the ordered list that occurs in the path of the URL, "general"
\* when none occurs.
C14_FirstMarkerOrGeneral ==
  (pc = "classified" /\ probe.fn = "get_product_area")
    => /\ probe.result \in Products
       /\ probe.result = "general" <=> \A i \in 1..Len(product_markers) : ~MarkerOccurs(i)
       /\ \A i \in 1..Len(product_markers) :
            probe.result = product_markers[i]
              => MarkerOccurs(i) /\ \A j \in 1..(i - 1) : ~MarkerOccurs(j)

\* C14, its case: two markers occur in the path, and the area is the one that
\* comes first in the list although it comes second in the path.
C14_Witness ==
  /\ pc = "classified"
  /\ probe.fn = "get_product_area"
  /\ probe.result = "acquia-cloud-platform"
  /\ StartsWith(ProbedPath, "/acquia-dam/acquia-cloud-platform")

\* C15: is_docs_url rejects a URL exactly when its host is not the
\* documentation host, or its path contains an excluded pattern, ends in an
\* excluded extension or contains a problem pattern; every other URL of the
\* host, the root path included, is accepted.
C15_PureDenyList ==
  (pc = "classified" /\ probe.fn = "is_docs_url")
    => (probe.result = FALSE
          <=> \/ UrlNetloc(probe.url) # UrlNetloc(DRUPAL_BASE_URL)
              \/ AnyIn(excluded_patterns, ProbedPath)
              \/ \E i \in 1..Len(excluded_extensions) :
                    EndsWith(ProbedPath, excluded_extensions[i])
              \/ AnyIn(problem_patterns, ProbedPath))

\* The page the first loop of the search is fetching in this step.
CheckedUrl == doc_urls[doc_index]

CheckedPage == DictGet(page_cache', CheckedUrl)

\* C20: a candidate that is fetched with success, is an overview page by its
\* URL, has links and scores at most HIGH_SCORE (zero, or 1 to 50) has its
\* first OVERVIEW_LINKS links taken for fetching and scoring.
C20_OverviewPagesExpanded ==
  [][(/\ pc = "search"
      /\ doc_index <= Len(doc_urls)
      /\ last_fetch'.outcome \in {"hit", "fetched"}
      /\ overview_url[CheckedUrl]
      /\ CheckedPage.links # <<>>
      /\ Score(search_query, CheckedPage) <= HIGH_SCORE)
       => /\ pc' = "search_links"
          /\ link_rule' = "overview"
          /\ pending_links' = Take(CheckedPage.links, OVERVIEW_LINKS)]_vars

\* The request to the search page has failed: it raised, or it was answered
\* with a status other than 200.
FailedDiscovery == probe.fn = "search_page" /\ probe.answer.status # 200

\* The candidate list of a search whose search page answers 200 with no link.
NothingDiscovered == EntryPoints \o search_result_links([status |-> 200, hrefs |-> <<>>], EntryPoints)

\* C21: when the request to the search page fails, the search goes on with
\* the candidate list of a search that discovered nothing: each entry point
\* is fetched in its turn, and the search returns only after the last one,
\* with the output computed from the results of these pages.
C21_DiscoveryFailureIsIgnored ==
  /\ [](FailedDiscovery /\ pc \in {"search", "search_links"} => doc_urls = NothingDiscovered)
  /\ [][(FailedDiscovery /\ pc = "search" /\ doc_index <= Len(EntryPoints))
         => /\ last_fetch'.url = EntryPoints[doc_index]
            /\ last_fetch'.outcome \in {"hit", "fetched", "failed"}
            /\ results' = WithResult(results, search_query, EntryPoints[doc_index],
                                     IF last_fetch'.outcome = "failed"
                                     THEN [success |-> FALSE]
                                     ELSE DictGet(page_cache', EntryPoints[doc_index]))]_vars
  /\ [][(FailedDiscovery /\ pc' = "respond")
         => /\ doc_index = Len(EntryPoints) + 1
            /\ ret'.value = SearchOutput(search_query, results)]_vars

\* C21, its case: the search page answered 503 with anchors to documentation
\* pages, and the search has returned a page it found.
C21_Witness ==
  /\ FailedDiscovery
  /\ probe.answer.hrefs # <<>>
  /\ pc = "respond"
  /\ ret.value[1].relevance > 0

\* C29: the list a search returns holds no URL twice.
C29_ResultsHaveDistinctUrls ==
  (pc = "respond" /\ ret.tool \in SearchTools)
    => \A i, j \in 1..Len(ret.value) : ret.value[i].url = ret.value[j].url => i = j

(***************************************************************************)
(* Properties of crawl_docs.                                               *)
(***************************************************************************)

\* The URLs of a product area among a set of URLs.
InArea(S, area) == {u \in S : product_area_of[u] = area}

\* The fetches of the run, in order.
Fetches == SelectSeq(crawl_log, LAMBDA e : e.op = "fetch_page")

\* The URLs whose fetch in this run had the given outcomes.
FetchedWith(outcomes) == {Fetches[i].url : i \in {j \in 1..Len(Fetches) : Fetches[j].outcome \in outcomes}}

\* C4: at every point of a crawl run, no product area has more than
\* MAX_PAGES_PER_PRODUCT visited URLs.
C4_BudgetNeverExceeded ==
  \A area \in Products : Cardinality(InArea(visited, area)) <= MAX_PAGES_PER_PRODUCT

\* C4, its case: an area has used its whole budget and one more URL of the
\* area, not visited and within depth, is at the head of the frontier.
C4_Witness ==
  /\ pc = "crawl"
  /\ to_visit # <<>>
  /\ ~SkipItem(Head(to_visit)[1], Head(to_visit)[2])
  /\ Cardinality(InArea(visited, product_area_of[Head(to_visit)[1]])) = MAX_PAGES_PER_PRODUCT

\* C5: with max_depth = 0 only seeds are visited and fetched, and no link is
\* ever put into the frontier (every item is a seed at depth 0).
C5_DepthZeroOnlySeeds ==
  max_depth = 0 =>
    /\ visited \subseteq SeqRange(start_urls)
    /\ FetchedWith({"hit", "fetched", "failed"}) \subseteq SeqRange(start_urls)
    /\ \A i \in 1..Len(to_visit) :
         to_visit[i][2] = 0 /\ to_visit[i][1] \in SeqRange(start_urls)

\* C5, its case: a crawl at depth 0 has returned after fetching a page that
\* has links.
C5_Witness ==
  /\ max_depth = 0
  /\ pc = "crawled"
  /\ \E i \in 1..Len(all_pages) : all_pages[i].links # <<>>

\* C6: every crawl run terminates: the frontier empties and crawl_docs returns.
C6_CrawlTerminates == <>(pc = "crawled")

\* C6, its case: a run has returned after a failed fetch and three or more
\* visits.
C6_Witness ==
  /\ pc = "crawled"
  /\ Cardinality(visited) >= 3
  /\ FetchedWith({"failed"}) # {}

\* C7: the result map holds exactly the visited URLs whose fetch succeeded, and
\* a pass whose fetch fails drops the head of the frontier, leaves the result
\* map and the rest of the frontier as they are, and stays in the loop.
C7_ResultIsSuccessfulVisits ==
  /\ DictKeys(all_pages) = FetchedWith({"hit", "fetched"})
  /\ DictKeys(all_pages) \subseteq visited
  /\ FetchedWith({"hit", "fetched", "failed"}) = visited
  /\ \A i \in 1..Len(all_pages) : all_pages[i].success

C7_FailureOnlySkips ==
  [][(pc = "crawl" /\ last_fetch'.outcome = "failed")
       => (pc' = "crawl" /\ to_visit' = Tail(to_visit) /\ all_pages' = all_pages)]_vars

\* C7: a failed fetch only leaves its page out of the result: the two parts
\* above, at every state and at every step of a crawl.
C7_FailedFetchOnlyOmitsPage == []C7_ResultIsSuccessfulVisits /\ C7_FailureOnlySkips

\* C7, its case: a run has returned in which a fetch failed and a later fetch
\* succeeded.
C7_Witness ==
  /\ pc = "crawled"
  /\ \E i, j \in 1..Len(Fetches) :
       i < j /\ Fetches[i].outcome = "failed" /\ Fetches[j].outcome = "fetched"

\* The links of a recorded page, the empty set for a URL that has none.
RecordedLinks(u) ==
  IF u \in DictKeys(all_pages) THEN SeqRange(DictGet(all_pages, u).links) ELSE {}

\* The URLs at link distance at most n from a seed, along the links of the
\* recorded pages.
RECURSIVE WithinDistance(_)
WithinDistance(n) ==
  IF n < 0 THEN {}
  ELSE IF n = 0 THEN SeqRange(start_urls)
  ELSE LET near == WithinDistance(n - 1)
       IN  near \cup UNION {RecordedLinks(u) : u \in near}

\* No budget and no link limit can be reached: every product area has at most
\* MAX_PAGES_PER_PRODUCT URLs within max_depth of the seeds, and every recorded
\* page has at most SAME_PRODUCT_LINKS links of its own area and OTHER_LINKS
\* links of other areas.
NoLimitReached ==
  /\ \A area \in Products :
       Cardinality(InArea(WithinDistance(max_depth), area)) <= MAX_PAGES_PER_PRODUCT
  /\ \A i \in 1..Len(all_pages) :
       LET own == InArea(SeqRange(all_pages[i].links), product_area_of[all_pages[i].url])
       IN  /\ Cardinality(own) <= SAME_PRODUCT_LINKS
           /\ Cardinality(SeqRange(all_pages[i].links) \ own) <= OTHER_LINKS

\* C8: when every fetch succeeds and no limit is reached, crawl_docs returns
\* exactly the URLs within max_depth links of a seed.
C8_ReturnsAllWithinDepth ==
  (pc = "crawled" /\ FetchedWith({"failed"}) = {} /\ NoLimitReached)
    => DictKeys(all_pages) = WithinDistance(max_depth)

\* C8, its case (the scenario of the specification): one seed whose page links
\* to two pages, max_depth = 1, every fetch succeeds: the three are returned.
C8_Witness ==
  /\ pc = "crawled"
  /\ start_urls = <<uCloud>>
  /\ max_depth = 1
  /\ FetchedWith({"failed"}) = {}
  /\ NoLimitReached
  /\ RecordedLinks(uCloud) = {uCache, uAsset}
  /\ DictKeys(all_pages) = {uCloud, uCache, uAsset}


\* The depths of the frontier, from head to tail.
Depths(q) == [i \in 1..Len(q) |-> q[i][2]]

\* A sequence of numbers that never decreases from head to tail.
NonDecreasing(ns) == \A i, j \in 1..Len(ns) : i <= j => ns[i] <= ns[j]

\* C22: at every point of a crawl run the depths of the frontier never
\* decrease from head to tail, so each item taken from the frontier is at
\* least as deep as the one taken before it; and when max_depth >= 0 no item
\* of the frontier is deeper than max_depth.
C22_BreadthFirst ==
  /\ [](pc = "crawl" => /\ NonDecreasing(Depths(to_visit))
                        /\ max_depth >= 0 => \A i \in 1..Len(to_visit) : to_visit[i][2] <= max_depth)
  /\ [][(pc = "crawl" /\ to_visit # <<>> /\ to_visit' # <<>>)
         => Head(to_visit)[2] <= Head(to_visit')[2]]_vars

\* C22, its case: pages of depth 0 and 1 have been fetched, and the frontier
\* holds items of two depths, the deeper ones at max_depth.
C22_Witness ==
  /\ pc = "crawl"
  /\ Len(Fetches) >= 2
  /\ to_visit # <<>>
  /\ Head(to_visit)[2] = 1
  /\ to_visit[Len(to_visit)][2] = 2
  /\ max_depth = 2

\* C23: in a crawl run no URL is fetched twice, and the URLs fetched are the
\* visited ones.
C23_FetchedAtMostOnce ==
  pc \in {"crawl", "crawled"}
    => /\ \A i, j \in 1..Len(Fetches) : Fetches[i].url = Fetches[j].url => i = j
       /\ visited = {Fetches[i].url : i \in 1..Len(Fetches)}

\* C23, its case: the run has ended, a URL was listed twice among the seeds,
\* and a recorded page links to a URL that was visited in the run.
C23_Witness ==
  /\ pc = "crawled"
  /\ Len(start_urls) = 2
  /\ start_urls[1] = start_urls[2]
  /\ \E i \in 1..Len(all_pages) : SeqRange(all_pages[i].links) \cap visited # {}
  /\ Len(Fetches) > 2

\* The items one pass of the loop has appended to the frontier.
Enqueued == SubSeq(to_visit', Len(to_visit), Len(to_visit'))

\* The page visited by the pass, its depth and its product area.
VisitedUrl == Head(to_visit)[1]

VisitedDepth == Head(to_visit)[2]

VisitedArea == product_area_of[VisitedUrl]

\* A pass of the loop that fetches.
IsVisit == pc = "crawl" /\ crawl_log' # crawl_log

\* C24: a pass that fetches a page with success at a depth below max_depth
\* appends to the frontier links of that page only, at most
\* SAME_PRODUCT_LINKS of the page's own product area and at most OTHER_LINKS
\* of the others, each at the page's depth plus one and each tagged with the
\* link's own product area; a pass that fetches at max_depth, or whose fetch
\* fails, appends nothing.
C24_EnqueueLimits ==
  [][IsVisit =>
       IF last_fetch'.outcome # "failed" /\ VisitedDepth < max_depth
       THEN /\ Cardinality({i \in 1..Len(Enqueued) :
                              product_area_of[Enqueued[i][1]] = VisitedArea}) <= SAME_PRODUCT_LINKS
            /\ Cardinality({i \in 1..Len(Enqueued) :
                              product_area_of[Enqueued[i][1]] # VisitedArea}) <= OTHER_LINKS
            /\ \A i \in 1..Len(Enqueued) :
                  /\ Enqueued[i][1] \in SeqRange(DictGet(all_pages', VisitedUrl).links)
                  /\ Enqueued[i][2] = VisitedDepth + 1
                  /\ Enqueued[i][3] = product_area_of[Enqueued[i][1]]
       ELSE to_visit' = Tail(to_visit)]_vars

\* The links of the page fetched last that are of its own product area, and
\* those that are not.
LastPage == DictGet(all_pages, last_fetch.url)

OwnAreaLinks == {l \in SeqRange(LastPage.links) : product_area_of[l] = product_area_of[last_fetch.url]}

OtherAreaLinks == SeqRange(LastPage.links) \ OwnAreaLinks

\* C24, its case: the page fetched last has more unvisited links of other
\* product areas than the limit, as many of them as the limit allows are in
\* the frontier, and so is a link of the page's own area.
C24_Witness ==
  /\ pc = "crawl"
  /\ last_fetch.outcome = "fetched"
  /\ Cardinality(OtherAreaLinks \ visited) > OTHER_LINKS
  /\ Cardinality(OtherAreaLinks \cap Frontier(to_visit)) = OTHER_LINKS
  /\ OwnAreaLinks \cap Frontier(to_visit) # {}
\* C25: the log of a crawl run starts with a fetch, and from there on a delay
\* and a fetch alternate: no delay before the first fetch, and exactly one
\* between two consecutive fetches.
C25_DelayBetweenFetches ==
  pc \in {"crawl", "crawled"}
    => /\ \A i \in 1..Len(crawl_log) :
            crawl_log[i].op = IF i % 2 = 1 THEN "fetch_page" ELSE "sleep"
       /\ crawl_log # <<>> => crawl_log[Len(crawl_log)].op = "fetch_page"

\* C25, its case: three pages were fetched in a run whose seed list names a
\* URL twice, one of them from the cache.
C25_Witness ==
  /\ pc = "crawled"
  /\ Len(Fetches) >= 3
  /\ Len(start_urls) = 2
  /\ start_urls[1] = start_urls[2]
  /\ \E i \in 2..Len(Fetches) : Fetches[i].outcome = "hit"

\* C27: at every point of a crawl run the count of each product area is the
\* number of visited URLs of that area; a pass that fetches raises the count
\* of the area of its URL by one whether the fetch succeeds or fails, and a
\* pass that skips its item leaves every count as it is.
C27_CountsAreVisited ==
  /\ [](pc \in {"crawl", "crawled"}
          => /\ DOMAIN product_page_counts \subseteq Products
             /\ \A area \in Products :
                   CountOf(product_page_counts, area) = Cardinality(InArea(visited, area)))
  /\ [][pc = "crawl" /\ to_visit # <<>>
         => \A area \in Products :
              CountOf(product_page_counts', area) =
                CountOf(product_page_counts, area)
                  + (IF IsVisit /\ area = VisitedArea THEN 1 ELSE 0)]_vars

\* C27, its case: the run has ended, a fetch has failed in a product area
\* whose budget is used up, and a link of that area was seen but not visited.
C27_Witness ==
  /\ pc = "crawled"
  /\ \E u \in FetchedWith({"failed"}) :
       /\ CountOf(product_page_counts, product_area_of[u]) = MAX_PAGES_PER_PRODUCT
       /\ InArea(discovered_urls \ visited, product_area_of[u]) # {}

\* The seeds of the run are pairwise distinct.
DistinctSeeds == \A i, j \in 1..Len(start_urls) : start_urls[i] = start_urls[j] => i = j

\* C28: in a crawl run with pairwise distinct seeds, at every point no URL is
\* twice in the frontier and no URL of the frontier is visited; a pass
\* appends only URLs that were neither in the frontier nor visited.
C28_FrontierHasNoDuplicates ==
  /\ []((pc = "crawl" /\ DistinctSeeds)
          => /\ \A i, j \in 1..Len(to_visit) : to_visit[i][1] = to_visit[j][1] => i = j
             /\ Frontier(to_visit) \cap visited = {})
  /\ [][(IsVisit /\ DistinctSeeds)
          => \A i \in 1..Len(Enqueued) :
               Enqueued[i][1] \notin Frontier(Tail(to_visit)) \cup visited']_vars

\* C28, its case: two recorded pages link to the same URL, and that URL is in
\* the frontier.
C28_Witness ==
  /\ pc = "crawl"
  /\ DistinctSeeds
  /\ \E i, j \in 1..Len(all_pages) :
       /\ i # j
       /\ SeqRange(all_pages[i].links) \cap SeqRange(all_pages[j].links) \cap Frontier(to_visit) # {}

(***************************************************************************)
(* Properties of the cache and the crawl_docs tool.                        *)
(***************************************************************************)

\* C26: in every state of the server the URLs of url_to_cache_key are the
\* URLs of the page cache.
C26_KeysMatchCache == url_to_cache_key = DictKeys(page_cache)

\* C26, its case: the crawl_docs tool has merged the pages of a crawl, the
\* cache of capacity two is full, and the pinned document of the startup
\* preload has been evicted from it.
C26_Witness ==
  /\ pc = "respond"
  /\ ret.tool = "crawl_docs"
  /\ ret.value.crawled > 0
  /\ CACHE_SIZE = 2
  /\ Len(page_cache) = 2
  /\ MEMCACHED_DOC_URL \notin DictKeys(page_cache)

\* C30: when crawl_docs has returned to the tool, each page of its result is
\* in the cache or the cache is full; the merge leaves the cache as it is and
\* reports no added page.
C30_MergeAddsNothing ==
  /\ [](pc = "crawled" => \A i \in 1..Len(all_pages) :
                             \/ all_pages[i].url \in DictKeys(page_cache)
                             \/ Len(page_cache) = CACHE_SIZE)
  /\ [][pc = "crawled" => /\ page_cache' = page_cache
                          /\ ret'.value.added = 0
                          /\ ret'.value.cached = Len(page_cache)]_vars

\* C30, its case: crawl_docs has returned pages, one of which is no longer in
\* the cache.
C30_Witness ==
  /\ pc = "crawled"
  /\ \E i \in 1..Len(all_pages) : all_pages[i].url \notin DictKeys(page_cache)
  /\ \E i \in 1..Len(all_pages) : all_pages[i].url \in DictKeys(page_cache)

====
